---- MODULE Spec2Model ----
(***************************************************************************)
(* Model of the dataset generators of InterstellarTradeInspector            *)
(* (tools/generate_planets.py, tools/generate_vessels.py,                   *)
(* tools/generate_passenger.py, tools/generate_cargo.py,                    *)
(* tools/generate_log.py) and of the scenes of the game (main.py,           *)
(* src/scenes/main_menu.py, level_select.py, level.py).                     *)
(*                                                                          *)
(* Every generator is a sequential pass over its input tables driven by     *)
(* one pseudo-random stream.  A draw of the stream is modelled by an \E     *)
(* over a small set of the values the draw can deliver.                     *)
(*                                                                          *)
(* Time.  A datetime is a record [s, us]: whole seconds relative to         *)
(* 2973-06-01T00:00:00Z (UNIX time 31664736000) and microseconds            *)
(* 0..999999, the resolution of Python's datetime.  A timedelta is the      *)
(* same kind of record.                                                     *)
(*                                                                          *)
(* Weights.  The float weights of the source are kept as integers in        *)
(* hundredths (1.0 -> 100, 0.15 -> 15).                                     *)
(***************************************************************************)
EXTENDS Integers, Sequences, FiniteSets, TLC

VARIABLES
    planets,        \* list returned by load_planets: records [id, status]
    vessels,        \* list returned by load_vessels: records [id, type_raw, flag]
    max_prev,       \* generate_log.py --max-prev
    count,          \* generate_vessels.py --count
    scale,          \* generate_passenger.py --scale, in hundredths
    pc,             \* position of the running generator
    exc,            \* exception that aborted the run ("" while none)
    rows,           \* the generator's `rows` list
    log_id,         \* generate_logs: next LogEntry id
    vi,             \* index into vessels of the vessel the for loop is at
    prev_count,     \* generate_logs: previous stops drawn for the vessel
    i,              \* generate_logs: inner loop counter / people left to emit
    final_arrival_dt,
    final_departure_dt,
    final_port,
    next_arrival,
    next_port,
    prev_counts,    \* prev_count of every vessel whose anchor was appended
    vid,            \* generate_vessels: loop variable of range(1, count + 1)
    crew_n,         \* generate_passengers: crew drawn for the vessel
    pax_n,          \* generate_passengers: passengers drawn for the vessel
    tool,           \* the generator that was started
    input_fault,    \* what goes wrong in the run ("" for nothing): an input
                    \* file is missing, int() fails on a cell, or the output
                    \* device fails
    out_file,       \* the file at the generator's output path
    names_seen,     \* the set of names handed out so far (names_seen)
    pid,            \* generate_planets: loop variable of range(1, n + 1)
    cid,            \* generate_cargo: next CargoLine id
    n_items,        \* generate_cargo: manifest lines drawn for the vessel
    hazard_draw,    \* generate_cargo: the random.random() of line 421 consumed
                    \* for the last row, -1 when the row consumed none
    choice_weights, \* weighted_choice: the weights of the items
    choice_r,       \* weighted_choice: the value of random.uniform(0, total)
    chosen,         \* weighted_choice: position of the item returned, 0 before
    seed,           \* --seed: <<>> when absent (None), else <<the integer>>
    draws,          \* what the random stream seeded with `seed` has delivered
                    \* to this run, in order; <<>> throughout without a seed
    earlier,        \* the finished earlier runs with the same arguments:
                    \* records [rows, draws]
    name_attempt,   \* unique_name: the name drawn by the last attempt of the
                    \* retry loop in the latest call, "" when it made none
    range_in,       \* (lo, hi) of a per-vessel count range of the tables
    scale2,         \* the larger of two scale factors, in hundredths
    scaled,         \* the scaled bounds of range_in at scale and at scale2
    scene,          \* main.py: current_scene
    level_id,       \* Level.level_id
    sql_text,       \* Level.sql_box.text
    result_text,    \* Level.result_text
    solved,         \* column `solved` of table Level in level_meta.sqlite
    example_db,     \* the example database of check_sql: <<>> without its
                    \* table, else <<the set of ids in the table>>
    player_result,  \* check_sql: <<>> while unassigned, else <<the rows>>
    expected_result, \* check_sql: <<>> while unassigned, else <<the rows>>
    arg_preferred,  \* unique_name: argument `preferred`, "" for None or ""
    loop_tries,     \* name loops: iterations of the for loop completed
    loop_name,      \* name loops: local `name`
    loop_base,      \* name loops: local `base`
    loop_idx        \* name loops: local `idx`

vars == <<planets, vessels, max_prev, count, scale, pc, exc, rows, log_id, vi,
          prev_count, i, final_arrival_dt, final_departure_dt, final_port,
          next_arrival, next_port, prev_counts, vid, crew_n, pax_n, tool,
          input_fault, out_file, names_seen, pid, cid, n_items, hazard_draw, choice_weights,
          choice_r, chosen, seed, draws, earlier, name_attempt, range_in,
          scale2, scaled, scene, level_id, sql_text, result_text, solved,
          example_db, player_result, expected_result, arg_preferred,
          loop_tries, loop_name, loop_base, loop_idx>>

logLocals == <<prev_count, i, final_arrival_dt, final_departure_dt, final_port,
               next_arrival, next_port>>

cargoLocals == <<cid, n_items, hazard_draw>>

choiceLocals == <<choice_weights, choice_r, chosen>>

scaleLocals == <<range_in, scale2, scaled>>

sceneVars == <<scene, level_id, sql_text, result_text, solved, example_db,
               player_result, expected_result>>

nameLocals == <<arg_preferred, loop_tries, loop_name, loop_base, loop_idx>>

notLog == <<vid, crew_n, pax_n, names_seen, pid, cargoLocals, choiceLocals,
            name_attempt>>

(* What a generator run leaves alone: its arguments and input tables, the
   record of the earlier runs, and the state of the programs that are not
   running *)
inputs == <<tool, input_fault, planets, vessels, max_prev, count, scale, seed,
            earlier, scaleLocals, sceneVars, nameLocals>>

-----------------------------------------------------------------------------
(* Bounds of the model *)

MaxPlanets == 2      \* longest planet table
MaxVessels == 2      \* longest vessel table
MaxCap == 2          \* largest --max-prev tried
MaxCount == 3        \* largest --count tried

-----------------------------------------------------------------------------
(* Small helpers *)

Min(a, b) == IF a < b THEN a ELSE b
Max(a, b) == IF a > b THEN a ELSE b

RECURSIVE SumSeq(_)
SumSeq(s) == IF s = <<>> THEN 0 ELSE Head(s) + SumSeq(Tail(s))

SeqToSet(s) == {s[k] : k \in 1..Len(s)}

(* Python's `t in s` on strings *)
Contains(t, s) ==
    \E k \in 1..(Len(s) - Len(t) + 1) : SubSeq(s, k, k + Len(t) - 1) = t

-----------------------------------------------------------------------------
(* Time *)

ZeroDt == [s |-> 0, us |-> 0]

(* Mutation of DtSub: the timedelta is added *)
DtSubForward(dt, d) ==
    IF dt.us + d.us < 1000000
    THEN [s |-> dt.s + d.s, us |-> dt.us + d.us]
    ELSE [s |-> dt.s + d.s + 1, us |-> dt.us + d.us - 1000000]

(* datetime - timedelta *)
DtSub(dt, d) ==
    IF dt.us >= d.us
    THEN [s |-> dt.s - d.s, us |-> dt.us - d.us]
    ELSE [s |-> dt.s - d.s - 1, us |-> dt.us + 1000000 - d.us]

(* datetime + timedelta *)
DtAdd(dt, d) ==
    IF dt.us + d.us < 1000000
    THEN [s |-> dt.s + d.s, us |-> dt.us + d.us]
    ELSE [s |-> dt.s + d.s + 1, us |-> dt.us + d.us - 1000000]

DtLess(a, b) == a.s < b.s \/ (a.s = b.s /\ a.us < b.us)

(* timedelta(hours=h) for a whole number of hours h *)
HoursDelta(h) == [s |-> h * 3600, us |-> 0]

(* int(dt.timestamp()).  timestamp() is the float (dt - epoch).total_seconds();
   near 3.17e10 s a double has a spacing of 2^-18 s, so a datetime with 999999
   microseconds rounds to the next whole second and every other one keeps its
   second under int(). *)
Timestamp(dt) == IF dt.us >= 999999 THEN dt.s + 1 ELSE dt.s

-----------------------------------------------------------------------------
(* generate_log.py: tables *)

PLANET_STATUS_WEIGHTS ==
    [normal |-> 100, frontier |-> 60, restricted |-> 40, quarantine |-> 20,
     embargo |-> 15]

(* PLANET_STATUS_WEIGHTS.get(status, 0.3) *)
PlanetStatusWeight(status) ==
    IF status \in DOMAIN PLANET_STATUS_WEIGHTS
    THEN PLANET_STATUS_WEIGHTS[status] ELSE 30

(* TYPE_MAP in insertion order: <<canonical type, tokens>> *)
TYPE_MAP ==
    << <<"passenger liner", <<"passenger liner", "liner", "passenger">> >>,
       <<"interstellar shuttle", <<"shuttle">> >>,
       <<"private yacht", <<"yacht", "private">> >>,
       <<"bulk freighter", <<"bulk freighter", "bulk", "freighter">> >>,
       <<"container hauler", <<"container", "hauler">> >>,
       <<"tanker", <<"tanker">> >>,
       <<"fast courier", <<"courier", "fast courier">> >>,
       <<"research vessel", <<"research">> >>,
       <<"mining barge", <<"mining">> >>,
       <<"patrol corvette", <<"patrol", "corvette">> >>,
       <<"medical relief ship", <<"medical">> >>,
       <<"customs cutter", <<"customs", "cutter">> >> >>

Profile(pmin, pmax, smin, smax, tmin, tmax) ==
    [prev_range |-> <<pmin, pmax>>, stay_hours |-> <<smin, smax>>,
     travel_hours |-> <<tmin, tmax>>]

TYPE_PROFILES ==
    [t \in {TYPE_MAP[k][1] : k \in 1..Len(TYPE_MAP)} |->
        CASE t = "passenger liner"      -> Profile(2, 6, 12, 72, 24, 240)
          [] t = "interstellar shuttle" -> Profile(1, 4, 2, 10, 6, 48)
          [] t = "private yacht"        -> Profile(0, 3, 4, 48, 12, 120)
          [] t = "bulk freighter"       -> Profile(1, 5, 12, 96, 48, 480)
          [] t = "container hauler"     -> Profile(1, 5, 12, 96, 48, 360)
          [] t = "tanker"               -> Profile(1, 4, 24, 120, 48, 360)
          [] t = "fast courier"         -> Profile(1, 4, 1, 12, 6, 72)
          [] t = "research vessel"      -> Profile(1, 6, 24, 168, 24, 480)
          [] t = "mining barge"         -> Profile(1, 6, 24, 240, 48, 720)
          [] t = "patrol corvette"      -> Profile(0, 3, 6, 72, 12, 120)
          [] t = "medical relief ship"  -> Profile(1, 4, 24, 168, 24, 240)
          [] t = "customs cutter"       -> Profile(0, 4, 6, 24, 12, 120)]

DEFAULT_PROFILE == Profile(0, 3, 6, 48, 12, 120)

JUNE_DAY_MIN == 1
JUNE_DAY_MAX == 28

-----------------------------------------------------------------------------
(* generate_log.py: functions *)

(* canonical_type: the first canonical type, in TYPE_MAP order, one of whose
   tokens is a substring of the type string *)
RECURSIVE CanonFrom(_, _)
CanonFrom(k, type_raw) ==
    IF k > Len(TYPE_MAP) THEN "unknown"
    ELSE IF \E t \in SeqToSet(TYPE_MAP[k][2]) : Contains(t, type_raw)
         THEN TYPE_MAP[k][1]
         ELSE CanonFrom(k + 1, type_raw)

canonical_type(type_raw) == CanonFrom(1, type_raw)

(* TYPE_PROFILES.get(canon, DEFAULT_PROFILE) *)
ProfileOf(type_raw) ==
    LET canon == canonical_type(type_raw)
    IN  IF canon \in DOMAIN TYPE_PROFILES THEN TYPE_PROFILES[canon]
        ELSE DEFAULT_PROFILE

(* The cumulative scan shared by every weighted choice of the tools:
       acc = 0.0
       for item, w in zip(items, weights):
           acc += w
           if r <= acc: return item
   The index of the item returned, 0 when the loop ends without returning. *)
RECURSIVE ScanFrom(_, _, _, _)
ScanFrom(weights, r, k, acc) ==
    IF k > Len(weights) THEN 0
    ELSE IF r <= acc + weights[k] THEN k
         ELSE ScanFrom(weights, r, k + 1, acc + weights[k])

Scan(weights, r) == ScanFrom(weights, r, 1, 0)

(* The values of r = random.uniform(0, total) the model draws: 0, every
   cumulative sum and the value right above it, and total + 1, which stands
   for an r that float rounding leaves above the scan's last acc. *)
RECURSIVE PrefixSums(_, _, _)
PrefixSums(weights, k, acc) ==
    IF k > Len(weights) THEN {}
    ELSE {acc + weights[k]} \cup PrefixSums(weights, k + 1, acc + weights[k])

RDraws(weights) ==
    LET total == SumSeq(weights)
        sums == PrefixSums(weights, 1, 0)
    IN  IF weights = <<>> THEN {0}
        ELSE ({0} \cup sums \cup {a + 1 : a \in sums}) \cap (0..(total + 1))

IndexError == "IndexError"
ValueError == "ValueError"
FileNotFoundError == "FileNotFoundError"
OSError == "OSError"

(* What can go wrong in load_planets / load_vessels before the test for an
   empty table: path.open raises FileNotFoundError, or int(row["id"]) or
   int(row["flag"]) raises ValueError *)
LoaderFaults == {FileNotFoundError, ValueError}

InputFaults == {""} \cup LoaderFaults

(* What can go wrong in a run whose input files are sound: nothing, or the
   output device fails when the table is written *)
OutputFaults == {"", OSError}

(* Mutation of Candidates: the excluded id is kept *)
CandidatesKeepAll(ps, exclude) == ps

(* The planets pick_planet_weighted keeps: all when exclude is {} (None),
   else those whose id is not the excluded one. *)
Candidates(ps, exclude) == SelectSeq(ps, LAMBDA p : p.id \notin exclude)

CandidateWeights(ps, exclude) ==
    LET c == Candidates(ps, exclude)
    IN  [k \in 1..Len(c) |-> PlanetStatusWeight(c[k].status)]

(* pick_planet_weighted(planets, exclude_id) ends in `return items[-1]`, and
   with no candidate left the scan returns nothing and items[-1] raises
   IndexError. *)
PickRaises(ps, exclude) == Len(Candidates(ps, exclude)) = 0

(* pick_planet_weighted(planets, exclude_id) where it returns, with r the
   value drawn by random.uniform(0, total) *)
pick_planet_weighted(ps, exclude, r) ==
    LET c == Candidates(ps, exclude)
        k == Scan(CandidateWeights(ps, exclude), r)
    IN  IF k # 0 THEN c[k].id ELSE c[Len(c)].id

(* Mutation of random_datetime_in_june: the day of the month is taken as
   the number of whole days since the start of the month *)
random_datetime_day_off(day, hour, minute, second) ==
    [s |-> day * 86400 + hour * 3600 + minute * 60 + second, us |-> 0]

(* random_datetime_in_june with its four randint draws *)
random_datetime_in_june(day, hour, minute, second) ==
    [s |-> (day - 1) * 86400 + hour * 3600 + minute * 60 + second, us |-> 0]

(* The (day, hour, minute, second) draws the model takes: each randint at
   the two ends of its range. *)
JuneDraws == {<<JUNE_DAY_MIN, 0, 0, 0>>, <<JUNE_DAY_MAX, 23, 59, 59>>}

(* Mutation of sample_int_hours: the upper end is one hour too far *)
sample_int_hours_past_hi(lo, hi) == {lo, Max(lo, hi) + 1}

(* sample_int_hours(lo, hi) = random.randint(int(lo), int(max(lo, hi))):
   the model draws the two ends of the range. *)
sample_int_hours(lo, hi) == {lo, Max(lo, hi)}

(* timedelta(hours=random.uniform(lo, hi)), lo and hi given in seconds: the
   lower end of the range, and a duration that is not a whole number of
   seconds, one microsecond more than the second below the upper end. *)
DeltaLow(lo_s, hi_s) == [s |-> lo_s, us |-> 0]
DeltaFrac(lo_s, hi_s) == [s |-> hi_s - 1, us |-> 1]

(* Mutation of StepDraws: the travel time is drawn from the stay range *)
StepDrawsTravelFromStay(profile) ==
    LET slo == profile.stay_hours[1] * 1800
        shi == profile.stay_hours[2] * 3600
    IN  {<<DeltaLow(slo, shi), DeltaLow(slo, shi)>>,
         <<DeltaFrac(slo, shi), DeltaFrac(slo, shi)>>,
         <<DeltaLow(slo, shi), DeltaFrac(slo, shi)>>}

(* The <<travel, stay>> pairs of timedeltas one iteration of the backward
   walk draws in the model (lines 217 and 222): both at the lower end, both
   fractional, and a whole travel time with a fractional stay. *)
StepDraws(profile) ==
    LET tlo == profile.travel_hours[1] * 3600
        thi == profile.travel_hours[2] * 3600
        slo == profile.stay_hours[1] * 1800      \* stay_lo * 0.5 hours
        shi == profile.stay_hours[2] * 3600
    IN  {<<DeltaLow(tlo, thi), DeltaLow(slo, shi)>>,
         <<DeltaFrac(tlo, thi), DeltaFrac(slo, shi)>>,
         <<DeltaLow(tlo, thi), DeltaFrac(slo, shi)>>}

(* prev_min, prev_max of lines 189-193 *)
PrevRange(profile, cap) ==
    LET prev_min == profile.prev_range[1]
        clamped == Min(profile.prev_range[2], cap)
    IN  <<prev_min, IF clamped < prev_min THEN prev_min ELSE clamped>>

(* Mutation of LogRow: arrival and departure change places *)
LogRowSwapped(id, port, arrival_dt, departure_dt, vessel) ==
    [id |-> id, port |-> port, arrival |-> Timestamp(departure_dt),
     departure |-> Timestamp(arrival_dt), vessel |-> vessel]

LogRow(id, port, arrival_dt, departure_dt, vessel) ==
    [id |-> id, port |-> port, arrival |-> Timestamp(arrival_dt),
     departure |-> Timestamp(departure_dt), vessel |-> vessel]

planet_ids == [k \in 1..Len(planets) |-> planets[k].id]

-----------------------------------------------------------------------------
(* The seeded random stream *)

(* seed=None: no --seed was given and random is seeded from ambient entropy *)
None == <<>>

(* The --seed values tried *)
Seeds == {<<7>>}

(* random.seed(seed) fixes the stream: what it delivered to an earlier run
   with the same seed it delivers again, position by position; beyond what an
   earlier run consumed it may deliver anything. *)
Delivered(d) ==
    IF earlier = <<>> THEN TRUE
    ELSE IF Len(draws) >= Len(earlier[1].draws) THEN TRUE
    ELSE earlier[1].draws[Len(draws) + 1] = d

(* The run consumes d, the values one step takes from the stream *)
Draw(d) ==
    IF seed = None THEN draws' = draws
    ELSE Delivered(d) /\ draws' = Append(draws, d)

-----------------------------------------------------------------------------
(* The programs that are not running *)

ScaleIdle ==
    /\ range_in = <<0, 0>>
    /\ scale2 = 0
    /\ scaled = <<>>

SceneIdle ==
    /\ scene = "none"
    /\ level_id = 0
    /\ sql_text = ""
    /\ result_text = ""
    /\ solved = <<>>
    /\ example_db = <<>>
    /\ player_result = <<>>
    /\ expected_result = <<>>

NameIdle ==
    /\ arg_preferred = ""
    /\ loop_tries = 0
    /\ loop_name = ""
    /\ loop_base = ""
    /\ loop_idx = 0

-----------------------------------------------------------------------------
(* Input tables *)

Statuses == <<"normal", "embargo", "uncharted", "frontier">>

(* A planet table as generate_planets writes it: ids 1..n in order *)
PlanetTable(n) ==
    [k \in 1..n |-> [id |-> k, status |-> Statuses[((k - 1) % Len(Statuses)) + 1]]]

(* Type strings of the vessel tables: one that contains a token of a
   canonical type, one that contains none ("spice clipper" is a type
   generate_vessels emits) *)
VesselTypeStrings == {"luxury liner", "spice clipper"}

(* Flags of the vessel tables; MaxPlanets + 1 is the id of no body *)
FlagValues == {1, MaxPlanets + 1}

VesselTables ==
    UNION {[1..n -> VesselTypeStrings \X FlagValues] : n \in 0..MaxVessels}

VesselTable(f) ==
    [k \in DOMAIN f |-> [id |-> k, type_raw |-> f[k][1], flag |-> f[k][2]]]

-----------------------------------------------------------------------------
(* generate_log.py: main and generate_logs *)

LogStart(seeds, faults) ==
    /\ tool = "generate_log"
    /\ seed \in seeds
    /\ draws = <<>>
    /\ earlier = <<>>
    /\ name_attempt = ""
    /\ ScaleIdle
    /\ SceneIdle
    /\ NameIdle
    /\ input_fault \in faults
    /\ out_file = "previous"
    /\ names_seen = {}
    /\ pid = 1
    /\ cid = 1
    /\ n_items = 0
    /\ hazard_draw = -1
    /\ choice_weights = <<>>
    /\ choice_r = 0
    /\ chosen = 0
    /\ planets \in {PlanetTable(n) : n \in 0..MaxPlanets}
    /\ vessels \in {VesselTable(f) : f \in VesselTables}
    /\ max_prev \in 1..MaxCap
    /\ count = 0
    /\ scale = 0
    /\ pc = "main"
    /\ exc = ""
    /\ rows = <<>>
    /\ log_id = 1
    /\ vi = 1
    /\ prev_count = 0
    /\ i = 0
    /\ final_arrival_dt = ZeroDt
    /\ final_departure_dt = ZeroDt
    /\ final_port = 0
    /\ next_arrival = ZeroDt
    /\ next_port = 0
    /\ prev_counts = <<>>
    /\ vid = 1
    /\ crew_n = 0
    /\ pax_n = 0

(* A run without --seed on a sound output device *)
InitLog == LogStart({None}, InputFaults)

(* Mutation of LogMain: the output file is opened for writing before the
   rows are generated *)
LogMainOpensOutput ==
    /\ pc = "main"
    /\ IF input_fault \in LoaderFaults
       THEN /\ pc' = "error"
            /\ exc' = input_fault
       ELSE IF planets = <<>> \/ vessels = <<>>
       THEN /\ pc' = "error"
            /\ exc' = ValueError
       ELSE /\ pc' = "vessel"
            /\ exc' = exc
    /\ out_file' = IF input_fault \notin LoaderFaults /\ planets # <<>> /\ vessels # <<>>
                   THEN "written" ELSE out_file
    /\ UNCHANGED <<inputs, draws, notLog, rows, log_id, vi, logLocals, prev_counts>>

(* main: the loaders raise when a file is missing or a cell is no integer;
   load_planets and load_vessels raise ValueError on a table without
   rows; otherwise generate_logs starts with rows = [] and log_id = 1 *)
LogMain ==
    /\ pc = "main"
    /\ IF input_fault \in LoaderFaults
       THEN /\ pc' = "error"
            /\ exc' = input_fault
       ELSE IF planets = <<>> \/ vessels = <<>>
       THEN /\ pc' = "error"
            /\ exc' = ValueError
       ELSE /\ pc' = "vessel"
            /\ exc' = exc
    /\ UNCHANGED <<inputs, draws, out_file, notLog, rows, log_id, vi, logLocals, prev_counts>>

(* Lines 184-210: the head of the body of `for v in vessels` *)
LogStartVessel ==
    /\ pc = "vessel"
    /\ vi <= Len(vessels)
    /\ LET v == vessels[vi]
           profile == ProfileOf(v.type_raw)
           range == PrevRange(profile, max_prev)
       IN  \E n \in range[1]..range[2], t \in JuneDraws,
              final_stay_h \in sample_int_hours(profile.stay_hours[1], profile.stay_hours[2]),
              bias \in BOOLEAN, r \in RDraws(CandidateWeights(planets, {})) :
              LET arrival == random_datetime_in_june(t[1], t[2], t[3], t[4])
                  port == IF bias /\ v.flag \in SeqToSet(planet_ids)
                          THEN v.flag
                          ELSE pick_planet_weighted(planets, {}, r)
              IN  /\ prev_count' = n
                  /\ final_arrival_dt' = arrival
                  /\ final_departure_dt' = DtAdd(arrival, HoursDelta(final_stay_h))
                  /\ final_port' = port
                  /\ next_arrival' = arrival
                  /\ next_port' = port
                  /\ Draw(<<n, t, final_stay_h, bias, r>>)
    /\ i' = 0
    /\ pc' = "prev"
    /\ UNCHANGED <<inputs, out_file, notLog, exc, rows, log_id, vi, prev_counts>>

(* Lines 213-243: one iteration of `for i in range(prev_count)` *)
LogPrevStop ==
    /\ pc = "prev"
    /\ i < prev_count
    /\ LET v == vessels[vi]
           profile == ProfileOf(v.type_raw)
       IN  \E d \in StepDraws(profile),
              r \in RDraws(CandidateWeights(planets, {next_port})) :
              LET prev_departure_dt == DtSub(next_arrival, d[1])
                  prev_arrival_dt == DtSub(prev_departure_dt, d[2])
              IN  /\ Draw(<<d, r>>)
                  /\ IF PickRaises(planets, {next_port})
                     THEN /\ pc' = "error"
                          /\ exc' = IndexError
                          /\ UNCHANGED <<rows, log_id, i, next_arrival, next_port>>
                     ELSE LET candidate == pick_planet_weighted(planets, {next_port}, r)
                          IN  /\ rows' = Append(rows, LogRow(log_id, candidate,
                                                   prev_arrival_dt, prev_departure_dt, v.id))
                              /\ log_id' = log_id + 1
                              /\ i' = i + 1
                              /\ next_arrival' = prev_arrival_dt
                              /\ next_port' = candidate
                              /\ UNCHANGED <<pc, exc>>
    /\ UNCHANGED <<inputs, out_file, notLog, vi, prev_count, final_arrival_dt, final_departure_dt,
                   final_port, prev_counts>>

(* Mutation of LogFinal: log_id is not incremented after the anchor row *)
LogFinalSameId ==
    /\ pc = "prev"
    /\ i = prev_count
    /\ rows' = Append(rows, LogRow(log_id, final_port, final_arrival_dt,
                                   final_departure_dt, vessels[vi].id))
    /\ prev_counts' = Append(prev_counts, prev_count)
    /\ vi' = vi + 1
    /\ pc' = "vessel"
    /\ UNCHANGED <<inputs, draws, out_file, notLog, exc, log_id, logLocals>>

(* Lines 245-253: the anchor row, appended after the inner loop *)
LogFinal ==
    /\ pc = "prev"
    /\ i = prev_count
    /\ rows' = Append(rows, LogRow(log_id, final_port, final_arrival_dt,
                                   final_departure_dt, vessels[vi].id))
    /\ log_id' = log_id + 1
    /\ prev_counts' = Append(prev_counts, prev_count)
    /\ vi' = vi + 1
    /\ pc' = "vessel"
    /\ UNCHANGED <<inputs, draws, out_file, notLog, exc, logLocals>>

(* Lines 260-267: every vessel is done; the rows are written out;
   when the output device fails, open("w") raises OSError and the file is as
   before, or a write or the close raises it and the truncated file holds
   part of the table *)
LogWrite ==
    /\ pc = "vessel"
    /\ vi > Len(vessels)
    /\ IF input_fault = OSError
       THEN /\ pc' = "error"
            /\ exc' = OSError
            /\ out_file' \in {out_file, "partial"}
       ELSE /\ pc' = "done"
            /\ exc' = exc
            /\ out_file' = "written"
    /\ UNCHANGED <<inputs, draws, notLog, rows, log_id, vi, logLocals, prev_counts>>

NextLog == LogMain \/ LogStartVessel \/ LogPrevStop \/ LogFinal \/ LogWrite

SpecLog == InitLog /\ [][NextLog]_vars

-----------------------------------------------------------------------------
(* Properties of generate_logs *)

(* Indices into rows of the rows of the vessel at position k of the table *)
RowIdx(k) == {j \in 1..Len(rows) : rows[j].vessel = vessels[k].id}

(* The vessels whose anchor row has been appended *)
DoneVessels == 1..Len(prev_counts)

LastIdx(k) == CHOOSE j \in RowIdx(k) : \A m \in RowIdx(k) : m <= j

(* The anchor window: JUNE_DAY_MIN 00:00:00 .. JUNE_DAY_MAX 23:59:59 of
   June 2973, in seconds since 2973-06-01T00:00:00Z *)
InAnchorWindow(t) ==
    /\ (JUNE_DAY_MIN - 1) * 86400 <= t
    /\ t <= JUNE_DAY_MAX * 86400 - 1

(* C1: for every vessel, the rows emitted for it have strictly increasing
   arrival timestamps when taken in emission order (increasing id). *)
C1_OldestFirst ==
    \A a, b \in 1..Len(rows) :
        (a < b /\ rows[a].vessel = rows[b].vessel)
            => rows[a].arrival < rows[b].arrival

(* C2 as stated: for every vessel exactly one row has its arrival inside the
   anchor window, and it is the last row emitted for the vessel. *)
C2_ExactlyOneInWindow ==
    \A k \in DoneVessels :
        LET idx == RowIdx(k)
        IN  {j \in idx : InAnchorWindow(rows[j].arrival)} = {LastIdx(k)}

(* C2 amended: for every vessel the last row emitted has its arrival inside
   the anchor window, so at least one row has; every other row of the vessel
   arrives strictly earlier than that row, inside the window or not. *)
C2_AnchorInWindow ==
    \A k \in DoneVessels :
        /\ RowIdx(k) # {}
        /\ LET last == LastIdx(k)
           IN  /\ InAnchorWindow(rows[last].arrival)
               /\ \A j \in RowIdx(k) \ {last} :
                     rows[j].arrival < rows[last].arrival

(* A finished vessel with a previous stop inside the window and, in the same
   run, one with a previous stop before the window *)
C2_Witness ==
    /\ \E k \in DoneVessels : \E j \in RowIdx(k) \ {LastIdx(k)} :
          InAnchorWindow(rows[j].arrival)
    /\ \E k \in DoneVessels : \E j \in RowIdx(k) \ {LastIdx(k)} :
          ~InAnchorWindow(rows[j].arrival)

(* C3: when excluding the following stop's port leaves no candidate, the
   step falls back to some body and the run does not fail. *)
C3_FallbackNoFailure == ~(pc = "error" /\ exc = IndexError)

(* C4: the number of previous stops of a vessel never exceeds the
   max-previous-stops cap. *)
C4_CountWithinCap ==
    /\ pc = "prev" => prev_count <= max_prev
    /\ \A k \in DoneVessels : prev_counts[k] <= max_prev

(* C5: the last row emitted for a vessel is the anchor: its arrival lies in
   day 1 00:00:00 .. day 28 23:59:59 of June 2973, its departure is its
   arrival plus a whole number of hours within the profile's stay_hours, and
   it is the row appended from final_port, final_arrival_dt and
   final_departure_dt. *)
C5_AnchorLast ==
    /\ \A k \in DoneVessels :
          LET r == rows[LastIdx(k)]
              stay == ProfileOf(vessels[k].type_raw).stay_hours
              stayed == r.departure - r.arrival
          IN  /\ InAnchorWindow(r.arrival)
              /\ stayed % 3600 = 0
              /\ stay[1] * 3600 <= stayed
              /\ stayed <= stay[2] * 3600
    /\ (pc = "vessel" /\ vi > 1) =>
          LET r == rows[Len(rows)]
          IN  /\ r.vessel = vessels[vi - 1].id
              /\ r.port = final_port
              /\ r.arrival = final_arrival_dt.s
              /\ r.departure = final_departure_dt.s

(* A finished vessel with previous stops whose anchor stayed the longest
   stay of its profile, arriving in the last second of the window *)
C5_Witness ==
    \E k \in DoneVessels :
        /\ prev_counts[k] >= 1
        /\ rows[LastIdx(k)].arrival = JUNE_DAY_MAX * 86400 - 1
        /\ rows[LastIdx(k)].departure - rows[LastIdx(k)].arrival =
              ProfileOf(vessels[k].type_raw).stay_hours[2] * 3600

(* C6: every row has arrival <= departure as integer seconds. *)
C6_ArrivalBeforeDeparture ==
    \A j \in 1..Len(rows) : rows[j].arrival <= rows[j].departure

(* A previous stop has just been appended whose arrival datetime ends in
   999999 microseconds, so that timestamp() rounded its arrival up to the
   next second while its departure is a whole second *)
C6_Witness ==
    /\ pc = "prev"
    /\ i >= 1
    /\ next_arrival.us = 999999
    /\ rows[Len(rows)].arrival = next_arrival.s + 1
    /\ rows[Len(rows)].arrival < rows[Len(rows)].departure
    /\ rows[Len(rows)].departure % 3600 = 0

(* C7: N + 1 rows per vessel, ids 1..total contiguous in emission order,
   every row's vessel the id of the vessel being processed when it was
   appended, every port the id of a body of the planet table. *)
C7_RowsPerVesselAndIds ==
    /\ Len(rows) = log_id - 1
    /\ \A j \in 1..Len(rows) :
          /\ rows[j].id = j
          /\ rows[j].port \in SeqToSet(planet_ids)
    /\ \A k \in DoneVessels : Cardinality(RowIdx(k)) = prev_counts[k] + 1
    /\ pc = "prev" => Cardinality(RowIdx(vi)) = i
    /\ \A k \in 1..Len(vessels) :
          (k > Len(prev_counts) /\ ~(pc = "prev" /\ k = vi)) => RowIdx(k) = {}
    /\ \A a, b \in 1..Len(rows) :
          a < b => rows[a].vessel <= rows[b].vessel
    /\ pc = "done" => Len(prev_counts) = Len(vessels)

(* A finished run over two vessels, one with previous stops *)
C7_Witness ==
    /\ pc = "done"
    /\ Len(vessels) >= 2
    /\ \E k \in DoneVessels : prev_counts[k] >= 2
    /\ Len(rows) >= 4

-----------------------------------------------------------------------------
(* generate_vessels.py *)

STATUS_FLAG_WEIGHTS ==
    [normal |-> 100, frontier |-> 25, restricted |-> 20, quarantine |-> 10,
     embargo |-> 8]

VESSEL_TYPES ==
    << <<"bulk freighter", 18>>, <<"container hauler", 16>>, <<"tanker", 12>>,
       <<"passenger liner", 8>>, <<"interstellar shuttle", 8>>,
       <<"fast courier", 8>>, <<"research vessel", 6>>, <<"mining barge", 6>>,
       <<"patrol corvette", 5>>, <<"private yacht", 5>>,
       <<"medical relief ship", 4>>, <<"spice clipper", 4>> >>

(* weighted_choice(items, weights) with r the value of
   random.uniform(0, total); `return items[-1]` when the scan selects none *)
weighted_choice(items, weights, r) ==
    LET k == Scan(weights, r)
    IN  IF k # 0 THEN items[k] ELSE items[Len(items)]

(* Longest list and largest weight handed to weighted_choice on its own *)
MaxLen == 3
MaxWeight == 2

(* Non-empty weight lists with at least one positive weight *)
WeightLists ==
    {w \in UNION {[1..n -> 0..MaxWeight] : n \in 1..MaxLen} :
        \E k \in 1..Len(w) : w[k] > 0}

(* weighted_choice called on its own: every weight list, and every r from 0
   to the total and the value above it, which stands for an r that float
   rounding leaves above the scan's last acc *)
InitChoice ==
    /\ tool = "weighted_choice"
    /\ seed = None
    /\ draws = <<>>
    /\ earlier = <<>>
    /\ name_attempt = ""
    /\ ScaleIdle
    /\ SceneIdle
    /\ NameIdle
    /\ input_fault = ""
    /\ choice_weights \in WeightLists
    /\ choice_r \in 0..(SumSeq(choice_weights) + 1)
    /\ chosen = 0
    /\ pc = "call"
    /\ planets = <<>>
    /\ vessels = <<>>
    /\ max_prev = 0
    /\ count = 0
    /\ scale = 0
    /\ exc = ""
    /\ out_file = "previous"
    /\ names_seen = {}
    /\ rows = <<>>
    /\ pid = 1
    /\ vid = 1
    /\ log_id = 1
    /\ vi = 1
    /\ prev_count = 0
    /\ i = 0
    /\ final_arrival_dt = ZeroDt
    /\ final_departure_dt = ZeroDt
    /\ final_port = 0
    /\ next_arrival = ZeroDt
    /\ next_port = 0
    /\ prev_counts = <<>>
    /\ crew_n = 0
    /\ pax_n = 0
    /\ cid = 1
    /\ n_items = 0
    /\ hazard_draw = -1

(* One call of weighted_choice over items that are their own positions *)
ChoiceCall ==
    /\ pc = "call"
    /\ chosen' = weighted_choice([k \in 1..Len(choice_weights) |-> k],
                                 choice_weights, choice_r)
    /\ pc' = "returned"
    /\ UNCHANGED <<inputs, draws, out_file, exc, rows, names_seen, log_id, vi, logLocals,
                   prev_counts, vid, crew_n, pax_n, pid, cargoLocals,
                   choice_weights, choice_r, name_attempt>>

NextChoice == ChoiceCall

SpecChoice == InitChoice /\ [][NextChoice]_vars

(* C17: weighted_choice returns an entry of weight zero only when the
   cumulative scan selected no entry and the last entry is returned as the
   fallback, for every r from 0 on. *)
C17_NoZeroWeightEntry ==
    (tool = "weighted_choice" /\ pc = "returned" /\ choice_weights[chosen] = 0)
        => Scan(choice_weights, choice_r) = 0

(* [STATUS_FLAG_WEIGHTS.get(p["status"], 0.1) for p in planets] *)
FlagWeights(ps) ==
    [k \in 1..Len(ps) |->
        IF ps[k].status \in DOMAIN STATUS_FLAG_WEIGHTS
        THEN STATUS_FLAG_WEIGHTS[ps[k].status] ELSE 10]

(* Mutation of pick_flag: the position of the chosen planet in the list,
   counted from 0, instead of its id *)
pick_flag_position(ps, r) == weighted_choice(ps, FlagWeights(ps), r).id - 1

pick_flag(ps, r) == weighted_choice(ps, FlagWeights(ps), r).id

TypeWeights == [k \in 1..Len(VESSEL_TYPES) |-> VESSEL_TYPES[k][2]]

pick_type(r) ==
    weighted_choice([k \in 1..Len(VESSEL_TYPES) |-> VESSEL_TYPES[k][1]],
                    TypeWeights, r)

(* The names the three patterns of make_vessel_name can build, lines 124-131:
   one of "<prefix> <adjective> <noun><roman>" and one of
   "<prefix>-<number> <noun>", from the first entries of the name parts *)
VesselNameDraws == {"SS" \o " " \o "Azure" \o " " \o "Nomad" \o "",
                    "SS" \o "-" \o ToString(100) \o " " \o "Nomad"}

(* Lines 137-140: the while loop that appends " (idx)" to base, from idx on *)
RECURSIVE VesselSuffix(_, _, _)
VesselSuffix(existing, base, idx) ==
    LET name == base \o " (" \o ToString(idx) \o ")"
    IN  IF name \in existing THEN VesselSuffix(existing, base, idx + 1) ELSE name

(* Mutation of make_vessel_name: a colliding name is returned as it is *)
make_vessel_name_no_suffix(existing, name) == name

(* make_vessel_name(existing), with `name` the name built from the random
   draws of lines 124-131; the caller adds the result to `existing` *)
make_vessel_name(existing, name) ==
    IF name \in existing THEN VesselSuffix(existing, name, 2) ELSE name

(* make_captain_name(): "<first name> <surname>", from the first entries of
   FIRST_NAMES and SURNAMES *)
CaptainNameDraws == {"Alex" \o " " \o "Okoye"}

VesselsStart(seeds, faults) ==
    /\ tool = "generate_vessels"
    /\ seed \in seeds
    /\ draws = <<>>
    /\ earlier = <<>>
    /\ name_attempt = ""
    /\ ScaleIdle
    /\ SceneIdle
    /\ NameIdle
    /\ input_fault \in faults
    /\ out_file = "previous"
    /\ names_seen = {}
    /\ pid = 1
    /\ cid = 1
    /\ n_items = 0
    /\ hazard_draw = -1
    /\ choice_weights = <<>>
    /\ choice_r = 0
    /\ chosen = 0
    /\ planets \in {PlanetTable(n) : n \in 0..MaxPlanets}
    /\ count \in 0..MaxCount
    /\ vessels = <<>>
    /\ max_prev = 0
    /\ scale = 0
    /\ pc = "main"
    /\ exc = ""
    /\ rows = <<>>
    /\ vid = 1
    /\ log_id = 1
    /\ vi = 1
    /\ prev_count = 0
    /\ i = 0
    /\ final_arrival_dt = ZeroDt
    /\ final_departure_dt = ZeroDt
    /\ final_port = 0
    /\ next_arrival = ZeroDt
    /\ next_port = 0
    /\ prev_counts = <<>>
    /\ crew_n = 0
    /\ pax_n = 0

(* A run without --seed on a sound output device *)
InitVessels == VesselsStart({None}, InputFaults)

notVessels ==
    <<log_id, vi, logLocals, prev_counts, crew_n, pax_n, pid, cargoLocals, choiceLocals,
      name_attempt>>

(* main, lines 174-177: load_planets raises ValueError on a table without
   rows; otherwise generate_vessels starts with rows = [] *)
VesselsMain ==
    /\ pc = "main"
    /\ IF input_fault \in LoaderFaults
       THEN /\ pc' = "error"
            /\ exc' = input_fault
       ELSE IF planets = <<>>
       THEN /\ pc' = "error"
            /\ exc' = ValueError
       ELSE /\ pc' = "row"
            /\ exc' = exc
    /\ UNCHANGED <<inputs, draws, out_file, notVessels, rows, vid, names_seen>>

(* Lines 155-167: one iteration of `for vid in range(1, count + 1)` *)
VesselsRow ==
    /\ pc = "row"
    /\ vid <= count
    /\ \E rt \in RDraws(TypeWeights), built \in VesselNameDraws,
          captain \in CaptainNameDraws, rf \in RDraws(FlagWeights(planets)) :
          LET name == make_vessel_name(names_seen, built)
          IN  /\ Draw(<<rt, built, captain, rf>>)
              /\ names_seen' = names_seen \cup {name}
              /\ rows' = Append(rows, [id |-> vid, name |-> name,
                                       captain |-> captain, type |-> pick_type(rt),
                                       flag |-> pick_flag(planets, rf)])
    /\ vid' = vid + 1
    /\ UNCHANGED <<inputs, out_file, notVessels, pc, exc>>

(* Lines 169-172: the loop is over; the rows are written out;
   when the output device fails, open("w") raises OSError and the file is as
   before, or a write or the close raises it and the truncated file holds
   part of the table *)
VesselsWrite ==
    /\ pc = "row"
    /\ vid > count
    /\ IF input_fault = OSError
       THEN /\ pc' = "error"
            /\ exc' = OSError
            /\ out_file' \in {out_file, "partial"}
       ELSE /\ pc' = "done"
            /\ exc' = exc
            /\ out_file' = "written"
    /\ UNCHANGED <<inputs, draws, notVessels, rows, vid, names_seen>>

NextVessels == VesselsMain \/ VesselsRow \/ VesselsWrite

SpecVessels == InitVessels /\ [][NextVessels]_vars

(* C8: generate_vessels with a non-empty planet table emits exactly `count`
   rows, ids 1..count in order, every flag the id of a body of the table. *)
C8_VesselRows ==
    /\ Len(rows) = vid - 1
    /\ Len(rows) <= count
    /\ \A j \in 1..Len(rows) :
          /\ rows[j].id = j
          /\ rows[j].flag \in SeqToSet(planet_ids)
    /\ pc = "done" => Len(rows) = count

(* A finished run of `count` >= 2 rows over a table of several bodies whose
   first two rows fly different flags *)
C8_Witness ==
    /\ pc = "done"
    /\ count >= 2
    /\ Len(planets) >= 2
    /\ Len(rows) = count
    /\ rows[1].flag # rows[2].flag

(* Names of the rows before row j *)
NamesBefore(j) == {rows[k].name : k \in 1..(j - 1)}

(* C13: the names returned by make_vessel_name within one run are pairwise
   distinct and the set of names seen is the set of names returned; a row's
   name is either a built name that was not yet in the set, or a built name
   that was in the set followed by " (k)" for the smallest k >= 2 that makes
   a name not yet in the set. *)
C13_VesselNamesUnique ==
    tool = "generate_vessels" =>
        /\ \A j, k \in 1..Len(rows) : j # k => rows[j].name # rows[k].name
        /\ names_seen = {rows[j].name : j \in 1..Len(rows)}
        /\ \A j \in 1..Len(rows) :
              \/ rows[j].name \in VesselNameDraws \ NamesBefore(j)
              \/ \E base \in VesselNameDraws \cap NamesBefore(j), k \in 2..(j + 1) :
                    /\ rows[j].name = base \o " (" \o ToString(k) \o ")"
                    /\ rows[j].name \notin NamesBefore(j)
                    /\ \A m \in 2..(k - 1) :
                          (base \o " (" \o ToString(m) \o ")") \in NamesBefore(j)

(* A finished run whose three rows were all built with the same name: the
   second got the suffix (2), the third the suffix (3) *)
C13_Witness ==
    /\ tool = "generate_vessels"
    /\ pc = "done"
    /\ Len(rows) = 3
    /\ rows[2].name = rows[1].name \o " (2)"
    /\ rows[3].name = rows[1].name \o " (3)"

-----------------------------------------------------------------------------
(* generate_planets.py *)

STATUSES ==
    << <<"normal", 78>>, <<"quarantine", 8>>, <<"embargo", 6>>,
       <<"restricted", 5>>, <<"frontier", 3>> >>

(* pick_status(): weighted_choice(STATUSES) with r = random.random() *)
pick_status(r) ==
    weighted_choice([k \in 1..Len(STATUSES) |-> STATUSES[k][1]],
                    [k \in 1..Len(STATUSES) |-> STATUSES[k][2]], r)

(* The classes of sample_mass: <<upper end of r in hundredths, lowest mass,
   highest mass>>, masses in thousandths of an Earth mass *)
MASS_CLASSES ==
    << <<5, 50, 300>>, <<60, 300, 2000>>, <<85, 2000, 10000>>,
       <<95, 10000, 20000>>, <<100, 50000, 318000>> >>

(* sample_mass() with r = random.random() in hundredths; the uniform draw
   inside the class delivers its lowest or its highest mass *)
sample_mass(r, highest) ==
    LET k == CHOOSE c \in 1..Len(MASS_CLASSES) :
                 /\ r < MASS_CLASSES[c][1]
                 /\ \A b \in 1..(c - 1) : r >= MASS_CLASSES[b][1]
    IN  IF highest THEN MASS_CLASSES[k][3] ELSE MASS_CLASSES[k][2]

(* Draws of random.random() in hundredths: the two ends of [0, 1) *)
UnitDraws == {0, 99}

(* name_catalogue(): "<prefix> <number> <suffix>" *)
name_catalogue(prefix, number, suffix) ==
    prefix \o " " \o ToString(number) \o " " \o suffix

(* name_new_colony(): "New <city>" *)
name_new_colony(city) == "New " \o city

(* Names name_catalogue() can return *)
CatalogueDraws == {name_catalogue("HD", 100, "b")}

(* Names generate_name() can return *)
PlanetNameDraws == CatalogueDraws \cup {name_new_colony("Kyoto")}

(* Mutation of FallbackName: the designation without the id *)
FallbackNameNoId(designation, id) == designation

(* Line 147: f"{name_catalogue()}-{pid}" *)
FallbackName(designation, id) == designation \o "-" \o ToString(id)

PlanetsStart(seeds, faults) ==
    /\ tool = "generate_planets"
    /\ seed \in seeds
    /\ draws = <<>>
    /\ earlier = <<>>
    /\ name_attempt = ""
    /\ ScaleIdle
    /\ SceneIdle
    /\ NameIdle
    /\ input_fault \in faults
    /\ count \in 0..MaxCount
    /\ planets = <<>>
    /\ vessels = <<>>
    /\ max_prev = 0
    /\ scale = 0
    /\ pc = "row"
    /\ exc = ""
    /\ out_file = "previous"
    /\ names_seen = {}
    /\ rows = <<>>
    /\ pid = 1
    /\ vid = 1
    /\ log_id = 1
    /\ vi = 1
    /\ prev_count = 0
    /\ i = 0
    /\ final_arrival_dt = ZeroDt
    /\ final_departure_dt = ZeroDt
    /\ final_port = 0
    /\ next_arrival = ZeroDt
    /\ next_port = 0
    /\ prev_counts = <<>>
    /\ crew_n = 0
    /\ pax_n = 0
    /\ cid = 1
    /\ n_items = 0
    /\ hazard_draw = -1
    /\ choice_weights = <<>>
    /\ choice_r = 0
    /\ chosen = 0

(* A run without --seed on a sound output device *)
InitPlanets == PlanetsStart({None}, {""})

notPlanets ==
    <<log_id, vi, logLocals, prev_counts, vid, crew_n, pax_n, cargoLocals, choiceLocals,
      name_attempt>>

(* Lines 152-157 *)
PlanetRow(id, name, mass, status) ==
    [id |-> id, name |-> name, mass |-> mass, status |-> status]

(* Lines 138-157, one iteration of `for pid in range(1, n + 1)` whose retry
   loop breaks: one of its attempts drew a name that was not in names_seen *)
PlanetsRowFresh ==
    /\ pc = "row"
    /\ pid <= count
    /\ \E name \in PlanetNameDraws \ names_seen, r \in UnitDraws,
          highest \in BOOLEAN, rs \in UnitDraws :
          /\ Draw(<<"fresh", name, r, highest, rs>>)
          /\ names_seen' = names_seen \cup {name}
          /\ rows' = Append(rows, PlanetRow(pid, name, sample_mass(r, highest),
                                            pick_status(rs)))
    /\ pid' = pid + 1
    /\ UNCHANGED <<inputs, out_file, notPlanets, pc, exc>>

(* Lines 138-157, one iteration whose retry loop runs out: each of the 100
   attempts drew a name of names_seen, and the `else` branch of the loop
   builds the name, which is not added to names_seen *)
PlanetsRowFallback ==
    /\ pc = "row"
    /\ pid <= count
    /\ PlanetNameDraws \cap names_seen # {}
    /\ \E designation \in CatalogueDraws, r \in UnitDraws,
          highest \in BOOLEAN, rs \in UnitDraws :
          /\ Draw(<<"collisions", designation, r, highest, rs>>)
          /\ rows' = Append(rows, PlanetRow(pid, FallbackName(designation, pid),
                                           sample_mass(r, highest), pick_status(rs)))
    /\ pid' = pid + 1
    /\ UNCHANGED <<inputs, out_file, notPlanets, pc, exc, names_seen>>

(* Lines 159-162: the loop is over; the rows are written out;
   when the output device fails, open("w") raises OSError and the file is as
   before, or a write or the close raises it and the truncated file holds
   part of the table *)
PlanetsWrite ==
    /\ pc = "row"
    /\ pid > count
    /\ IF input_fault = OSError
       THEN /\ pc' = "error"
            /\ exc' = OSError
            /\ out_file' \in {out_file, "partial"}
       ELSE /\ pc' = "done"
            /\ exc' = exc
            /\ out_file' = "written"
    /\ UNCHANGED <<inputs, draws, notPlanets, rows, pid, names_seen>>

NextPlanets == PlanetsRowFresh \/ PlanetsRowFallback \/ PlanetsWrite

SpecPlanets == InitPlanets /\ [][NextPlanets]_vars

(* C12: generate_planets(n) emits exactly n rows, ids 1..n in order, with
   pairwise distinct names, also when the retry loop ran out for some ids
   and their names are a designation followed by "-<id>". *)
C12_PlanetRows ==
    tool = "generate_planets" =>
        /\ Len(rows) = pid - 1
        /\ Len(rows) <= count
        /\ \A j \in 1..Len(rows) : rows[j].id = j
        /\ \A j, k \in 1..Len(rows) : j # k => rows[j].name # rows[k].name
        /\ pc = "done" => Len(rows) = count

(* A finished run of three rows of which the second and the third have a
   fallback name built from the designation that is the first row's name *)
C12_Witness ==
    /\ tool = "generate_planets"
    /\ pc = "done"
    /\ Len(rows) = 3
    /\ rows[2].name = rows[1].name \o "-2"
    /\ rows[3].name = rows[1].name \o "-3"

-----------------------------------------------------------------------------
(* generate_passenger.py *)

Headcount(clo, chi, plo, phi) ==
    [crew |-> <<clo, chi>>, passenger |-> <<plo, phi>>]

TYPE_PROFILE ==
    [t \in {TYPE_MAP[k][1] : k \in 1..Len(TYPE_MAP)} |->
        CASE t = "passenger liner"      -> Headcount(20, 40, 120, 400)
          [] t = "interstellar shuttle" -> Headcount(4, 10, 20, 80)
          [] t = "private yacht"        -> Headcount(4, 12, 0, 8)
          [] t = "bulk freighter"       -> Headcount(8, 20, 0, 6)
          [] t = "container hauler"     -> Headcount(8, 22, 0, 8)
          [] t = "tanker"               -> Headcount(6, 18, 0, 4)
          [] t = "fast courier"         -> Headcount(2, 6, 0, 4)
          [] t = "research vessel"      -> Headcount(12, 40, 0, 15)
          [] t = "mining barge"         -> Headcount(20, 60, 0, 10)
          [] t = "patrol corvette"      -> Headcount(15, 30, 0, 2)
          [] t = "medical relief ship"  -> Headcount(18, 60, 10, 120)
          [] t = "customs cutter"       -> Headcount(10, 20, 0, 2)]

(* TYPE_PROFILE.get(vtype, {"crew": (6, 18), "passenger": (0, 6)}): a
   dictionary lookup of the type string itself *)
HeadcountOf(vtype) ==
    IF vtype \in DOMAIN TYPE_PROFILE THEN TYPE_PROFILE[vtype]
    ELSE Headcount(6, 18, 0, 6)

NATIONALITY_WEIGHTS ==
    [normal |-> 100, frontier |-> 70, restricted |-> 50, quarantine |-> 25,
     embargo |-> 20]

(* [NATIONALITY_WEIGHTS.get(p["status"], 0.3) for p in planets] *)
NationalityWeights(ps) ==
    [k \in 1..Len(ps) |->
        IF ps[k].status \in DOMAIN NATIONALITY_WEIGHTS
        THEN NATIONALITY_WEIGHTS[ps[k].status] ELSE 30]

pick_planet_id(ps, r) ==
    weighted_choice([k \in 1..Len(ps) |-> ps[k].id], NationalityWeights(ps), r)

(* int(round(num / den)) for num >= 0, den > 0: Python rounds a half to the
   even neighbour *)
PyRound(num, den) ==
    LET q == num \div den
        twice == 2 * (num % den)
    IN  IF twice > den THEN q + 1
        ELSE IF twice < den THEN q
        ELSE IF q % 2 = 0 THEN q ELSE q + 1

(* Mutation of ScaledRange: the lower bound is scaled by 1 - scale *)
ScaledRangeShrinks(lo, hi, sc) ==
    LET slo == Max(0, PyRound(lo * Max(0, 100 - sc), 100))
    IN  <<slo, Max(slo, PyRound(hi * sc, 100))>>

(* The bounds scaled_randint(lo, hi, scale) hands to random.randint, with
   scale in hundredths *)
ScaledRange(lo, hi, sc) ==
    LET slo == Max(0, PyRound(lo * sc, 100))
    IN  <<slo, Max(slo, PyRound(hi * sc, 100))>>

(* scaled_randint: the model draws the two ends of the scaled range *)
scaled_randint(lo, hi, sc) ==
    {ScaledRange(lo, hi, sc)[1], ScaledRange(lo, hi, sc)[2]}

(* --scale values tried, in hundredths *)
Scales == {0, 7}

(* Type strings of the vessel tables read by generate_passengers: a key of
   TYPE_PROFILE and a string that is none *)
PassengerTypeStrings == {"private yacht", "luxury liner"}

(* Captain names of the vessel tables: a name generate_passengers can also
   draw for a crew member or a passenger, and an empty captain cell *)
CaptainValues == {"Alex" \o " " \o "Okoye", ""}

PassengerVesselTables ==
    UNION {[1..n -> PassengerTypeStrings \X FlagValues \X CaptainValues] :
              n \in 0..MaxVessels}

(* The list load_vessels of generate_passenger.py returns; the type string
   is under the key "type" there *)
PassengerVesselTable(f) ==
    [k \in DOMAIN f |-> [id |-> k, type_raw |-> f[k][1], flag |-> f[k][2],
                         captain |-> f[k][3]]]

(* Names f"{random.choice(FIRST_NAMES)} {random.choice(SURNAMES)}" can be *)
PersonNameDraws == {"Alex" \o " " \o "Okoye", "Samira" \o " " \o "Fernandez"}

(* Lines 141-143: `while name in existing` appending " #idx" to base *)
RECURSIVE PersonSuffix(_, _, _, _)
PersonSuffix(existing, base, name, idx) ==
    IF name \in existing
    THEN PersonSuffix(existing, base, base \o " #" \o ToString(idx), idx + 1)
    ELSE name

(* Mutation of unique_name_runs: the preferred name is returned whether or
   not it is in use *)
unique_name_runs_preferred_always(existing, preferred) ==
    IF preferred # "" THEN {[attempt |-> "", name |-> preferred]}
    ELSE {[attempt |-> n, name |-> n] : n \in PersonNameDraws \ existing}

(* unique_name(existing, preferred): the ways it can run, each with the name
   drawn by the last attempt of its retry loop ("" when the loop is not
   entered) and the name it returns and adds to `existing`.  preferred = ""
   also stands for None.  Either one of the 50 attempts draws a name that is
   not in use and returns it, or every attempt draws a name in use and base
   (the preferred name, or one more draw) is suffixed until it is not in
   use. *)
unique_name_runs(existing, preferred) ==
    IF preferred # "" /\ preferred \notin existing
    THEN {[attempt |-> "", name |-> preferred]}
    ELSE {[attempt |-> n, name |-> n] : n \in PersonNameDraws \ existing}
         \cup {[attempt |-> a, name |-> PersonSuffix(existing, base, base, 2)] :
                  a \in PersonNameDraws \cap existing,
                  base \in (IF preferred # "" THEN {preferred}
                            ELSE PersonNameDraws)}

(* The names unique_name(existing, preferred) can return *)
unique_name(existing, preferred) ==
    {run.name : run \in unique_name_runs(existing, preferred)}

PassengersStart(seeds, faults) ==
    /\ tool = "generate_passenger"
    /\ seed \in seeds
    /\ draws = <<>>
    /\ earlier = <<>>
    /\ name_attempt = ""
    /\ ScaleIdle
    /\ SceneIdle
    /\ NameIdle
    /\ input_fault \in faults
    /\ out_file = "previous"
    /\ names_seen = {}
    /\ pid = 1
    /\ cid = 1
    /\ n_items = 0
    /\ hazard_draw = -1
    /\ choice_weights = <<>>
    /\ choice_r = 0
    /\ chosen = 0
    /\ planets \in {PlanetTable(n) : n \in 0..MaxPlanets}
    /\ vessels \in {PassengerVesselTable(f) : f \in PassengerVesselTables}
    /\ scale \in Scales
    /\ count = 0
    /\ max_prev = 0
    /\ pc = "main"
    /\ exc = ""
    /\ rows = <<>>
    /\ vi = 1
    /\ i = 0
    /\ crew_n = 0
    /\ pax_n = 0
    /\ vid = 1
    /\ log_id = 1
    /\ prev_count = 0
    /\ final_arrival_dt = ZeroDt
    /\ final_departure_dt = ZeroDt
    /\ final_port = 0
    /\ next_arrival = ZeroDt
    /\ next_port = 0
    /\ prev_counts = <<>>

(* A run without --seed on a sound output device *)
InitPassengers == PassengersStart({None}, InputFaults)

notPassengers ==
    <<vid, log_id, prev_count, final_arrival_dt, final_departure_dt,
      final_port, next_arrival, next_port, prev_counts, pid, cargoLocals,
      choiceLocals>>

(* Mutation of PersonRow: the vessel's id is also written as nationality *)
PersonRowVesselAsNationality(name, role, nationality, vessel) ==
    [name |-> name, type |-> role, nationality |-> vessel, vessel |-> vessel]

(* Lines 167-172, 183-188, 195-200: a Person row *)
PersonRow(name, role, nationality, vessel) ==
    [name |-> name, type |-> role, nationality |-> nationality, vessel |-> vessel]

(* main, lines 207-213: load_planets and load_vessels raise ValueError on a
   table without rows; otherwise generate_passengers starts with rows = [] *)
PassengersMain ==
    /\ pc = "main"
    /\ IF input_fault \in LoaderFaults
       THEN /\ pc' = "error"
            /\ exc' = input_fault
       ELSE IF planets = <<>> \/ vessels = <<>>
       THEN /\ pc' = "error"
            /\ exc' = ValueError
       ELSE /\ pc' = "captain"
            /\ exc' = exc
    /\ UNCHANGED <<inputs, draws, out_file, notPassengers, name_attempt, names_seen, rows, vi, i, crew_n, pax_n>>

(* Lines 161-175: the captain row of the vessel, then the crew count *)
PassengersCaptain ==
    /\ pc = "captain"
    /\ vi <= Len(vessels)
    /\ LET v == vessels[vi]
           profile == HeadcountOf(v.type_raw)
       IN  \E run \in unique_name_runs(names_seen, v.captain),
              n \in scaled_randint(profile.crew[1], profile.crew[2], scale) :
              /\ Draw(<<run, n>>)
              /\ name_attempt' = run.attempt
              /\ names_seen' = names_seen \cup {run.name}
              /\ rows' = Append(rows, PersonRow(run.name, "captain",
                                                v.flag, v.id))
              /\ crew_n' = n
    /\ i' = 0
    /\ pc' = "crew"
    /\ UNCHANGED <<inputs, out_file, notPassengers, exc, vi, pax_n>>

(* Lines 176-188: one iteration of the crew loop *)
PassengersCrew ==
    /\ pc = "crew"
    /\ i < crew_n
    /\ LET v == vessels[vi]
       IN  \E run \in unique_name_runs(names_seen, ""), flag_biased \in BOOLEAN,
              r \in RDraws(NationalityWeights(planets)) :
              LET nat == IF flag_biased THEN v.flag
                         ELSE pick_planet_id(planets, r)
              IN  /\ Draw(<<run, flag_biased, r>>)
                  /\ name_attempt' = run.attempt
                  /\ names_seen' = names_seen \cup {run.name}
                  /\ rows' = Append(rows, PersonRow(run.name, "crew", nat, v.id))
    /\ i' = i + 1
    /\ UNCHANGED <<inputs, out_file, notPassengers, pc, exc, vi, crew_n, pax_n>>

(* Line 191: the crew loop is over; the passenger count is drawn *)
PassengersCount ==
    /\ pc = "crew"
    /\ i = crew_n
    /\ LET profile == HeadcountOf(vessels[vi].type_raw)
       IN  \E n \in scaled_randint(profile.passenger[1], profile.passenger[2], scale) :
              /\ Draw(<<n>>)
              /\ pax_n' = n
    /\ i' = 0
    /\ pc' = "passenger"
    /\ UNCHANGED <<inputs, out_file, notPassengers, name_attempt, names_seen, exc, rows, vi, crew_n>>

(* Lines 192-200: one iteration of the passenger loop *)
PassengersPassenger ==
    /\ pc = "passenger"
    /\ i < pax_n
    /\ \E run \in unique_name_runs(names_seen, ""),
          r \in RDraws(NationalityWeights(planets)) :
          /\ Draw(<<run, r>>)
          /\ name_attempt' = run.attempt
          /\ names_seen' = names_seen \cup {run.name}
          /\ rows' = Append(rows, PersonRow(run.name, "passenger",
                                            pick_planet_id(planets, r), vessels[vi].id))
    /\ i' = i + 1
    /\ UNCHANGED <<inputs, out_file, notPassengers, pc, exc, vi, crew_n, pax_n>>

(* The passenger loop is over: `for v in vessels` moves to the next vessel *)
PassengersNextVessel ==
    /\ pc = "passenger"
    /\ i = pax_n
    /\ vi' = vi + 1
    /\ pc' = "captain"
    /\ UNCHANGED <<inputs, draws, out_file, notPassengers, name_attempt, names_seen, exc, rows, i, crew_n, pax_n>>

(* Lines 202-205: every vessel is done; the rows are written out;
   when the output device fails, open("w") raises OSError and the file is as
   before, or a write or the close raises it and the truncated file holds
   part of the table *)
PassengersWrite ==
    /\ pc = "captain"
    /\ vi > Len(vessels)
    /\ IF input_fault = OSError
       THEN /\ pc' = "error"
            /\ exc' = OSError
            /\ out_file' \in {out_file, "partial"}
       ELSE /\ pc' = "done"
            /\ exc' = exc
            /\ out_file' = "written"
    /\ UNCHANGED <<inputs, draws, notPassengers, name_attempt, names_seen, rows, vi, i, crew_n, pax_n>>

NextPassengers ==
    \/ PassengersMain
    \/ PassengersCaptain
    \/ PassengersCrew
    \/ PassengersCount
    \/ PassengersPassenger
    \/ PassengersNextVessel
    \/ PassengersWrite

SpecPassengers == InitPassengers /\ [][NextPassengers]_vars

vessel_ids == [k \in 1..Len(vessels) |-> vessels[k].id]

(* C9: every Person row has a nationality that is the id of a body of the
   planet table and a vessel that is the id of a vessel of the vessel
   table. *)
C9_PersonReferences ==
    \A j \in 1..Len(rows) :
        /\ rows[j].nationality \in SeqToSet(planet_ids)
        /\ rows[j].vessel \in SeqToSet(vessel_ids)

(* C10: a vessel row whose flag is the id of no body of the planet table
   aborts the run: no row is generated from such a table and the run does
   not reach its end. *)
C10_DanglingFlagIsFatal ==
    (\E k \in 1..Len(vessels) : vessels[k].flag \notin SeqToSet(planet_ids))
        => (rows = <<>> /\ pc # "done")

(* C14: across all vessels of one run the names of the Person rows are
   pairwise distinct, and names_seen is the set of them. *)
C14_PersonNamesUnique ==
    tool = "generate_passenger" =>
        /\ \A j, k \in 1..Len(rows) : j # k => rows[j].name # rows[k].name
        /\ names_seen = {rows[j].name : j \in 1..Len(rows)}

(* A finished run over two vessels with the same captain name in which a
   retry budget ran out: the second captain is the first one's name with the
   suffix " #2" *)
C14_Witness ==
    /\ tool = "generate_passenger"
    /\ pc = "done"
    /\ Len(vessels) = 2
    /\ vessels[1].captain # ""
    /\ vessels[1].captain = vessels[2].captain
    /\ \E j \in 1..Len(rows) :
          /\ rows[j].type = "captain"
          /\ rows[j].vessel = 2
          /\ rows[j].name = vessels[1].captain \o " #2"

(* Indices into rows of the captain rows of the vessel at position k *)
CaptainRows(k) ==
    {j \in 1..Len(rows) : rows[j].type = "captain" /\ rows[j].vessel = vessels[k].id}

(* The vessels whose captain row was appended *)
CaptainDone(k) == k < vi \/ (k = vi /\ pc \in {"crew", "passenger"})

(* C15 as stated: exactly one captain row per vessel, its nationality the
   vessel's flag, its name the vessel's captain name when no earlier row has
   that name and otherwise a different name that no earlier row has. *)
C15_CaptainPerVessel ==
    tool = "generate_passenger" =>
        \A k \in 1..Len(vessels) :
            /\ Cardinality(CaptainRows(k)) = (IF CaptainDone(k) THEN 1 ELSE 0)
            /\ \A j \in CaptainRows(k) :
                  /\ rows[j].nationality = vessels[k].flag
                  /\ IF vessels[k].captain \notin NamesBefore(j)
                     THEN rows[j].name = vessels[k].captain
                     ELSE /\ rows[j].name # vessels[k].captain
                          /\ rows[j].name \notin NamesBefore(j)

(* C15, amended: the captain row has the vessel's captain name when that
   name is not empty and no earlier row has it; otherwise (an empty captain
   cell, or a name in use) it has a different name that no earlier row has. *)
C15_CaptainPerVesselNonEmpty ==
    tool = "generate_passenger" =>
        \A k \in 1..Len(vessels) :
            /\ Cardinality(CaptainRows(k)) = (IF CaptainDone(k) THEN 1 ELSE 0)
            /\ \A j \in CaptainRows(k) :
                  /\ rows[j].nationality = vessels[k].flag
                  /\ IF vessels[k].captain # "" /\ vessels[k].captain \notin NamesBefore(j)
                     THEN rows[j].name = vessels[k].captain
                     ELSE /\ rows[j].name # vessels[k].captain
                          /\ rows[j].name \notin NamesBefore(j)

(* A finished run over two vessels: the first has a captain name and its
   captain row carries it; the second has an empty captain cell and its
   captain row carries a drawn name *)
C15_Witness ==
    /\ tool = "generate_passenger"
    /\ pc = "done"
    /\ Len(vessels) = 2
    /\ vessels[1].captain # ""
    /\ vessels[2].captain = ""
    /\ \E j \in CaptainRows(1) : rows[j].name = vessels[1].captain
    /\ \E j \in CaptainRows(2) : rows[j].name \in PersonNameDraws

(* The headcount profile of the canonical type of a type string, as the
   Manifest generator normalises it (generate_cargo.py has the TYPE_MAP and
   the canonical_type of generate_log.py, word for word); the generic
   profile for "unknown" *)
CanonicalHeadcount(vtype) ==
    LET canon == canonical_type(vtype)
    IN  IF canon = "unknown" THEN Headcount(6, 18, 0, 6) ELSE TYPE_PROFILE[canon]

(* C16: for every vessel generate_passengers has started on, the headcount
   profile it uses is the profile of the canonical type that canonical_type
   returns for the vessel's type string, and the generic profile only when
   canonical_type returns "unknown". *)
C16_ProfileByCanonicalType ==
    tool = "generate_passenger" =>
        \A k \in 1..Len(vessels) :
            CaptainDone(k) =>
                HeadcountOf(vessels[k].type_raw) = CanonicalHeadcount(vessels[k].type_raw)

-----------------------------------------------------------------------------
(* generate_cargo.py *)

(* <<lowest, highest>> number of manifest lines per canonical type *)
VESSEL_CARGO_COUNTS ==
    [t \in {TYPE_MAP[k][1] : k \in 1..Len(TYPE_MAP)} \cup {"unknown"} |->
        CASE t = "passenger liner"      -> <<8, 30>>
          [] t = "interstellar shuttle" -> <<2, 10>>
          [] t = "private yacht"        -> <<1, 8>>
          [] t = "bulk freighter"       -> <<10, 80>>
          [] t = "container hauler"     -> <<20, 200>>
          [] t = "tanker"               -> <<1, 6>>
          [] t = "fast courier"         -> <<3, 18>>
          [] t = "research vessel"      -> <<5, 30>>
          [] t = "mining barge"         -> <<8, 60>>
          [] t = "patrol corvette"      -> <<2, 10>>
          [] t = "medical relief ship"  -> <<6, 40>>
          [] t = "customs cutter"       -> <<2, 12>>
          [] t = "unknown"              -> <<2, 12>>]

(* An entry of CATEGORY_DEFS: the lowest unit weight in thousandths of a kg,
   qty_range, hazard_prob in hundredths, always_hazard, and the first
   template without its leading "{qty}" *)
CategoryDef(unit_lo, qlo, qhi, prob, always, template) ==
    [unit_weight_lo |-> unit_lo, qty_range |-> <<qlo, qhi>>, hazard_prob |-> prob,
     always_hazard |-> always, template |-> template]

CATEGORY_DEFS ==
    [c \in {"Food", "Alcohol", "Electronics", "Medical", "Luxury", "Machinery",
            "Spare Parts", "Chemicals", "Explosives", "Radioactive",
            "Live Animals", "Fuel", "Raw Ore", "Weapons"} |->
        CASE c = "Food"         -> CategoryDef(500, 1, 12, 1, FALSE, " crates of Cryo-fruit")
          [] c = "Alcohol"      -> CategoryDef(500, 1, 8, 1, FALSE, " cases of Distilled Spirits")
          [] c = "Electronics"  -> CategoryDef(200, 1, 20, 1, FALSE, " crates of Comms Arrays")
          [] c = "Medical"      -> CategoryDef(50, 1, 30, 3, FALSE, " boxes of Vaccine Vials")
          [] c = "Luxury"       -> CategoryDef(100, 1, 12, 1, FALSE, " crates of Luxury Textiles")
          [] c = "Machinery"    -> CategoryDef(10000, 1, 6, 2, FALSE, " heavy crates of Engine Components")
          [] c = "Spare Parts"  -> CategoryDef(500, 1, 40, 1, FALSE, " boxes of Replacement Valves")
          [] c = "Chemicals"    -> CategoryDef(5000, 1, 12, 90, FALSE, " drums of Industrial Solvent")
          [] c = "Explosives"   -> CategoryDef(1000, 1, 6, 100, TRUE, " crates of Demolition Charges")
          [] c = "Radioactive"  -> CategoryDef(100, 1, 4, 100, TRUE, " shielded containers of Radioisotopes")
          [] c = "Live Animals" -> CategoryDef(1000, 1, 20, 5, FALSE, " bio-cages of Migratory Herds")
          [] c = "Fuel"         -> CategoryDef(500000, 1, 4, 95, FALSE, " tank-containers of Refined Fuel")
          [] c = "Raw Ore"      -> CategoryDef(100000, 1, 12, 2, FALSE, " pallets of Iron Ore")
          [] c = "Weapons"      -> CategoryDef(1000, 1, 8, 85, FALSE, " crates of Military Hardware")]

DEFAULT_CATEGORY_WEIGHTS ==
    << <<"Spare Parts", 10>>, <<"Machinery", 12>>, <<"Food", 10>>,
       <<"Electronics", 8>>, <<"Luxury", 5>>, <<"Chemicals", 6>>,
       <<"Alcohol", 4>>, <<"Medical", 6>>, <<"Raw Ore", 8>>, <<"Fuel", 5>>,
       <<"Weapons", 1>>, <<"Explosives", 1>>, <<"Live Animals", 4>>,
       <<"Radioactive", 1>> >>

CATEGORY_WEIGHTS_BY_TYPE ==
    [t \in {"container hauler", "bulk freighter", "tanker", "passenger liner",
            "private yacht", "fast courier", "mining barge", "research vessel",
            "customs cutter"} |->
        CASE t = "container hauler" ->
                << <<"Spare Parts", 12>>, <<"Machinery", 12>>, <<"Electronics", 15>>,
                   <<"Food", 10>>, <<"Luxury", 8>>, <<"Alcohol", 6>>, <<"Medical", 6>>,
                   <<"Raw Ore", 5>>, <<"Weapons", 3>>, <<"Chemicals", 6>>,
                   <<"Live Animals", 7>> >>
          [] t = "bulk freighter" ->
                << <<"Raw Ore", 50>>, <<"Fuel", 15>>, <<"Machinery", 10>>,
                   <<"Spare Parts", 7>>, <<"Food", 8>>, <<"Chemicals", 5>>,
                   <<"Live Animals", 5>> >>
          [] t = "tanker" ->
                << <<"Fuel", 70>>, <<"Chemicals", 25>>, <<"Spare Parts", 5>> >>
          [] t = "passenger liner" ->
                << <<"Luxury", 25>>, <<"Food", 20>>, <<"Electronics", 15>>,
                   <<"Medical", 10>>, <<"Alcohol", 10>>, <<"Spare Parts", 10>>,
                   <<"Live Animals", 5>> >>
          [] t = "private yacht" ->
                << <<"Luxury", 45>>, <<"Alcohol", 20>>, <<"Electronics", 15>>,
                   <<"Spare Parts", 10>>, <<"Food", 10>> >>
          [] t = "fast courier" ->
                << <<"Electronics", 30>>, <<"Medical", 20>>, <<"Luxury", 15>>,
                   <<"Spare Parts", 15>>, <<"Food", 20>> >>
          [] t = "mining barge" ->
                << <<"Raw Ore", 75>>, <<"Spare Parts", 10>>, <<"Machinery", 10>>,
                   <<"Fuel", 5>> >>
          [] t = "research vessel" ->
                << <<"Medical", 15>>, <<"Electronics", 25>>, <<"Chemicals", 20>>,
                   <<"Spare Parts", 20>>, <<"Luxury", 5>> >>
          [] t = "customs cutter" ->
                << <<"Spare Parts", 30>>, <<"Electronics", 25>>, <<"Medical", 20>>,
                   <<"Food", 25>> >>]

(* Mutation of CategoryTable: every type gets the default table *)
CategoryTableDefaultOnly(canon_type) == DEFAULT_CATEGORY_WEIGHTS

(* The weight table pick_category_for_vessel scans *)
CategoryTable(canon_type) ==
    IF canon_type \in DOMAIN CATEGORY_WEIGHTS_BY_TYPE
    THEN CATEGORY_WEIGHTS_BY_TYPE[canon_type]
    ELSE DEFAULT_CATEGORY_WEIGHTS

CategoryWeights(canon_type) ==
    [k \in 1..Len(CategoryTable(canon_type)) |-> CategoryTable(canon_type)[k][2]]

(* pick_category_for_vessel(canon_type), with x the value of
   random.uniform(0, total) *)
pick_category_for_vessel(canon_type, x) ==
    weighted_choice([k \in 1..Len(CategoryTable(canon_type)) |->
                        CategoryTable(canon_type)[k][1]],
                    CategoryWeights(canon_type), x)

(* Draws of random.uniform(0, total) for the category: its two ends and the
   value above the total *)
CategoryDraws(canon_type) ==
    {0, SumSeq(CategoryWeights(canon_type)), SumSeq(CategoryWeights(canon_type)) + 1}

(* Mutation of CargoCounts: the lower bound is floored at 0, as
   scaled_randint of generate_passenger.py does *)
CargoCountsFlooredAtZero(canon, sc) ==
    LET lo_s == Max(0, PyRound(VESSEL_CARGO_COUNTS[canon][1] * sc, 100))
    IN  <<lo_s, Max(lo_s, PyRound(VESSEL_CARGO_COUNTS[canon][2] * sc, 100))>>

(* Lines 394-397: <<lo_s, hi_s>> for a canonical type (canonical_type only
   returns keys of VESSEL_CARGO_COUNTS), with the scale in hundredths *)
CargoCounts(canon, sc) ==
    LET lo_s == Max(1, PyRound(VESSEL_CARGO_COUNTS[canon][1] * sc, 100))
    IN  <<lo_s, Max(lo_s, PyRound(VESSEL_CARGO_COUNTS[canon][2] * sc, 100))>>

(* Draws of the random.random() of line 421, in hundredths: the ends of
   [0, 1) and the two values around hazard_prob *)
HazardDraws(prob) == {0, prob - 1, prob, 99} \cap 0..99

(* Mutation of Hazardous: a draw equal to hazard_prob also counts *)
HazardousAtMost(cat_def, draw) ==
    IF cat_def.always_hazard THEN 1
    ELSE IF draw <= cat_def.hazard_prob THEN 1 ELSE 0

(* Lines 418-421, with `draw` the random.random() of line 421 *)
Hazardous(cat_def, draw) ==
    IF cat_def.always_hazard THEN 1
    ELSE IF draw < cat_def.hazard_prob THEN 1 ELSE 0

(* Mutation of CargoRow: the row's id is also written as its vessel *)
CargoRowIdAsVessel(id, category, qty, hazardous, vessel) ==
    [id |-> id,
     description |-> ToString(qty) \o CATEGORY_DEFS[category].template,
     category |-> category,
     weight |-> qty * CATEGORY_DEFS[category].unit_weight_lo,
     hazardous |-> hazardous,
     consignee |-> "AstraCorp Logistics",
     consignor |-> "Alex" \o " " \o "Okoye",
     vessel |-> id]

(* Lines 426-435.  The weight, in thousandths of a kg, is that of units of
   the lowest unit weight; consignee and consignor are one company and one
   person of the pools. *)
CargoRow(id, category, qty, hazardous, vessel) ==
    [id |-> id,
     description |-> ToString(qty) \o CATEGORY_DEFS[category].template,
     category |-> category,
     weight |-> qty * CATEGORY_DEFS[category].unit_weight_lo,
     hazardous |-> hazardous,
     consignee |-> "AstraCorp Logistics",
     consignor |-> "Alex" \o " " \o "Okoye",
     vessel |-> vessel]

(* Type strings of the vessel tables read by generate_cargo: a type with a
   category table of its own, and a type that is no canonical name, has the
   token "shuttle" and no category table of its own *)
CargoTypeStrings == {"tanker", "orbital shuttle"}

CargoVesselTables ==
    UNION {[1..n -> CargoTypeStrings \X {1}] : n \in 0..MaxVessels}

(* --scale values tried, in hundredths *)
CargoScales == {0, 25}

CargoStart(seeds, faults) ==
    /\ tool = "generate_cargo"
    /\ seed \in seeds
    /\ draws = <<>>
    /\ earlier = <<>>
    /\ name_attempt = ""
    /\ ScaleIdle
    /\ SceneIdle
    /\ NameIdle
    /\ input_fault \in faults
    /\ vessels \in {VesselTable(f) : f \in CargoVesselTables}
    /\ scale \in CargoScales
    /\ planets = <<>>
    /\ max_prev = 0
    /\ count = 0
    /\ pc = "main"
    /\ exc = ""
    /\ out_file = "previous"
    /\ rows = <<>>
    /\ cid = 1
    /\ vi = 1
    /\ n_items = 0
    /\ i = 0
    /\ hazard_draw = -1
    /\ names_seen = {}
    /\ pid = 1
    /\ vid = 1
    /\ log_id = 1
    /\ prev_count = 0
    /\ final_arrival_dt = ZeroDt
    /\ final_departure_dt = ZeroDt
    /\ final_port = 0
    /\ next_arrival = ZeroDt
    /\ next_port = 0
    /\ prev_counts = <<>>
    /\ crew_n = 0
    /\ pax_n = 0
    /\ choice_weights = <<>>
    /\ choice_r = 0
    /\ chosen = 0

(* A run without --seed on a sound output device *)
InitCargo == CargoStart({None}, InputFaults)

notCargo ==
    <<log_id, prev_count, final_arrival_dt, final_departure_dt, final_port,
      next_arrival, next_port, prev_counts, vid, crew_n, pax_n, names_seen, pid,
      choiceLocals,
      name_attempt>>

(* main, lines 447-452: load_vessels raises ValueError on a table without
   rows; otherwise generate_cargo starts with cargo_rows = [] and cid = 1 *)
CargoMain ==
    /\ pc = "main"
    /\ IF input_fault \in LoaderFaults
       THEN /\ pc' = "error"
            /\ exc' = input_fault
       ELSE IF vessels = <<>>
       THEN /\ pc' = "error"
            /\ exc' = ValueError
       ELSE /\ pc' = "vessel"
            /\ exc' = exc
    /\ UNCHANGED <<inputs, draws, out_file, notCargo, rows, vi, i, cargoLocals>>

(* Lines 392-398: the head of the body of `for v in vessels`; randint
   delivers one of the two ends of the scaled range *)
CargoStartVessel ==
    /\ pc = "vessel"
    /\ vi <= Len(vessels)
    /\ LET canon == canonical_type(vessels[vi].type_raw)
           counts == CargoCounts(canon, scale)
       IN  \E n \in {counts[1], counts[2]} :
              /\ n_items' = n
              /\ Draw(<<n>>)
    /\ i' = 0
    /\ pc' = "item"
    /\ UNCHANGED <<inputs, out_file, notCargo, exc, rows, vi, cid, hazard_draw>>

(* Lines 400-436: one iteration of `for _ in range(n_items)`; every category
   of the weight tables is a key of CATEGORY_DEFS; randint for the quantity
   delivers one of the two ends of qty_range *)
CargoItem ==
    /\ pc = "item"
    /\ i < n_items
    /\ LET v == vessels[vi]
           canon == canonical_type(v.type_raw)
       IN  \E x \in CategoryDraws(canon) :
              LET picked == pick_category_for_vessel(canon, x)
                  category == IF picked \in DOMAIN CATEGORY_DEFS THEN picked
                              ELSE "Spare Parts"
                  cat_def == CATEGORY_DEFS[category]
              IN  \E qty \in {cat_def.qty_range[1],
                               Max(cat_def.qty_range[1], cat_def.qty_range[2])},
                     draw \in (IF cat_def.always_hazard THEN {-1}
                               ELSE HazardDraws(cat_def.hazard_prob)) :
                     /\ Draw(<<x, qty, draw>>)
                     /\ hazard_draw' = draw
                     /\ rows' = Append(rows, CargoRow(cid, category, qty,
                                                      Hazardous(cat_def, draw), v.id))
    /\ cid' = cid + 1
    /\ i' = i + 1
    /\ UNCHANGED <<inputs, out_file, notCargo, pc, exc, vi, n_items>>

(* The inner loop is over: `for v in vessels` moves to the next vessel *)
CargoNextVessel ==
    /\ pc = "item"
    /\ i = n_items
    /\ vi' = vi + 1
    /\ pc' = "vessel"
    /\ UNCHANGED <<inputs, draws, out_file, notCargo, exc, rows, i, cargoLocals>>

(* Lines 438-444: every vessel is done; the rows are written out;
   when the output device fails, open("w") raises OSError and the file is as
   before, or a write or the close raises it and the truncated file holds
   part of the table *)
CargoWrite ==
    /\ pc = "vessel"
    /\ vi > Len(vessels)
    /\ IF input_fault = OSError
       THEN /\ pc' = "error"
            /\ exc' = OSError
            /\ out_file' \in {out_file, "partial"}
       ELSE /\ pc' = "done"
            /\ exc' = exc
            /\ out_file' = "written"
    /\ UNCHANGED <<inputs, draws, notCargo, rows, vi, i, cargoLocals>>

NextCargo ==
    CargoMain \/ CargoStartVessel \/ CargoItem \/ CargoNextVessel \/ CargoWrite

SpecCargo == InitCargo /\ [][NextCargo]_vars

(* Indices into rows of the CargoLine rows of the vessel at position k *)
CargoRowsOf(k) == {j \in 1..Len(rows) : rows[j].vessel = vessels[k].id}

(* C18: for every vessel whose manifest is complete, at every scale from 0
   on, there is at least one CargoLine, and the number of lines lies between
   max(1, round(lo * scale)) and max(that, round(hi * scale)) for the
   (lo, hi) of the vessel's canonical type. *)
C18_LinesPerVessel ==
    tool = "generate_cargo" =>
        \A k \in 1..Len(vessels) :
            k < vi =>
                LET lohi == VESSEL_CARGO_COUNTS[canonical_type(vessels[k].type_raw)]
                    lo_s == Max(1, PyRound(lohi[1] * scale, 100))
                    hi_s == Max(lo_s, PyRound(lohi[2] * scale, 100))
                    n == Cardinality(CargoRowsOf(k))
                IN  n >= 1 /\ lo_s <= n /\ n <= hi_s

(* A finished run at scale 0, where round(lo * scale) = round(hi * scale)
   = 0, over two vessels with one line each *)
C18_Witness ==
    /\ tool = "generate_cargo"
    /\ pc = "done"
    /\ scale = 0
    /\ Len(vessels) = 2
    /\ Cardinality(CargoRowsOf(1)) = 1
    /\ Cardinality(CargoRowsOf(2)) = 1

(* C19: the row appended last has hazardous = 1 without a draw when its
   category is always_hazard; otherwise it has hazardous = 1 exactly when
   the draw made for it is below the category's hazard_prob.  Every row is
   the last row in the state after its append. *)
C19_HazardDecision ==
    (tool = "generate_cargo" /\ rows # <<>>) =>
        LET row == rows[Len(rows)]
            cat_def == CATEGORY_DEFS[row.category]
        IN  /\ row.category \in {"Explosives", "Radioactive"} <=> cat_def.always_hazard
            /\ IF cat_def.always_hazard
               THEN row.hazardous = 1 /\ hazard_draw = -1
               ELSE /\ hazard_draw \in 0..99
                    /\ row.hazardous = 1 <=> hazard_draw < cat_def.hazard_prob
                    /\ row.hazardous \in {0, 1}

(* A run whose first row is a Radioactive row and whose last row is a Fuel
   row that is not hazardous because its draw, 0.95, was not below 0.95 *)
C19_Witness ==
    /\ tool = "generate_cargo"
    /\ Len(rows) >= 2
    /\ rows[1].category = "Radioactive"
    /\ rows[1].hazardous = 1
    /\ rows[Len(rows)].category = "Fuel"
    /\ rows[Len(rows)].hazardous = 0
    /\ hazard_draw = 95

(* C20: the rows carry the ids 1, 2, ... in emission order across all
   vessels; the rows of a vessel are together, in the order of the vessel
   table, and there is one for every manifest line drawn for the vessel. *)
C20_CargoIdsAndVessels ==
    tool = "generate_cargo" =>
        /\ cid = Len(rows) + 1
        /\ \A j \in 1..Len(rows) :
              /\ rows[j].id = j
              /\ \E k \in 1..Len(vessels) :
                    /\ rows[j].vessel = vessels[k].id
                    /\ k < vi \/ (k = vi /\ pc = "item")
        /\ \A j1, j2 \in 1..Len(rows) : j1 < j2 => rows[j1].vessel <= rows[j2].vessel
        /\ pc = "item" => Cardinality(CargoRowsOf(vi)) = i /\ i <= n_items
        /\ (pc = "vessel" /\ vi > 1) => Cardinality(CargoRowsOf(vi - 1)) = n_items

(* A finished run over two vessels with two lines each: ids 1..4 *)
C20_Witness ==
    /\ tool = "generate_cargo"
    /\ pc = "done"
    /\ Len(vessels) = 2
    /\ Len(rows) = 4
    /\ rows[2].vessel = 1
    /\ rows[3].vessel = 2
    /\ rows[4].id = 4

-----------------------------------------------------------------------------
(* The five generators together: one of them is started *)

InitTools == InitLog \/ InitVessels \/ InitPassengers \/ InitPlanets \/ InitCargo

NextTools ==
    \/ tool = "generate_log" /\ NextLog
    \/ tool = "generate_vessels" /\ NextVessels
    \/ tool = "generate_passenger" /\ NextPassengers
    \/ tool = "generate_planets" /\ NextPlanets
    \/ tool = "generate_cargo" /\ NextCargo

SpecTools == InitTools /\ [][NextTools]_vars

(* C11: in every generator, a run that was aborted by an error (a missing
   input file, a cell that is no integer, a table without rows, an error
   while the rows are generated) has not opened its output file, which keeps
   its previous content; the file is written only by a run that reached its
   end without an error. *)
C11_ErrorBeforeOutput ==
    /\ pc = "error" => (out_file = "previous" /\ exc # "")
    /\ out_file # "previous" => (pc = "done" /\ exc = "")

(* generate_log aborted by the IndexError of pick_planet_weighted after it
   had generated rows for an earlier vessel *)
C11_Witness ==
    /\ tool = "generate_log"
    /\ pc = "error"
    /\ exc = IndexError
    /\ rows # <<>>
    /\ out_file = "previous"

-----------------------------------------------------------------------------
(* A generator run twice with the same arguments and the same --seed *)

(* Mutation of ToolsRerun: the stream is not rewound, the second run draws
   on from where the first run stopped *)
ToolsRerunStreamGoesOn ==
    /\ seed # None
    /\ earlier = <<>>
    /\ pc \in {"done", "error"}
    /\ earlier' = <<[rows |-> rows, draws |-> draws]>>
    /\ draws' = draws
    /\ pc' = IF tool = "generate_planets" THEN "row" ELSE "main"
    /\ exc' = ""
    /\ rows' = <<>>
    /\ names_seen' = {}
    /\ name_attempt' = ""
    /\ log_id' = 1
    /\ vi' = 1
    /\ prev_count' = 0
    /\ i' = 0
    /\ final_arrival_dt' = ZeroDt
    /\ final_departure_dt' = ZeroDt
    /\ final_port' = 0
    /\ next_arrival' = ZeroDt
    /\ next_port' = 0
    /\ prev_counts' = <<>>
    /\ vid' = 1
    /\ crew_n' = 0
    /\ pax_n' = 0
    /\ pid' = 1
    /\ cid' = 1
    /\ n_items' = 0
    /\ hazard_draw' = -1
    /\ UNCHANGED <<tool, input_fault, planets, vessels, max_prev, count, scale,
                   seed, out_file, choiceLocals, scaleLocals, sceneVars,
                   nameLocals>>

(* The tool is started again after its run has ended: main starts over with
   the same arguments, and random.seed(seed) rewinds the stream *)
ToolsRerun ==
    /\ seed # None
    /\ earlier = <<>>
    /\ pc \in {"done", "error"}
    /\ earlier' = <<[rows |-> rows, draws |-> draws]>>
    /\ draws' = <<>>
    /\ pc' = IF tool = "generate_planets" THEN "row" ELSE "main"
    /\ exc' = ""
    /\ rows' = <<>>
    /\ names_seen' = {}
    /\ name_attempt' = ""
    /\ log_id' = 1
    /\ vi' = 1
    /\ prev_count' = 0
    /\ i' = 0
    /\ final_arrival_dt' = ZeroDt
    /\ final_departure_dt' = ZeroDt
    /\ final_port' = 0
    /\ next_arrival' = ZeroDt
    /\ next_port' = 0
    /\ prev_counts' = <<>>
    /\ vid' = 1
    /\ crew_n' = 0
    /\ pax_n' = 0
    /\ pid' = 1
    /\ cid' = 1
    /\ n_items' = 0
    /\ hazard_draw' = -1
    /\ UNCHANGED <<tool, input_fault, planets, vessels, max_prev, count, scale,
                   seed, out_file, choiceLocals, scaleLocals, sceneVars,
                   nameLocals>>

(* Seeded runs of the five generators over short tables *)
InitReplay ==
    \/ LogStart(Seeds, InputFaults) /\ Len(planets) = 2 /\ Len(vessels) <= 1 /\ max_prev = 1
    \/ VesselsStart(Seeds, InputFaults) /\ Len(planets) <= 1 /\ count <= 1
    \/ PassengersStart(Seeds, InputFaults) /\ Len(planets) <= 1 /\ Len(vessels) <= 1
    \/ PlanetsStart(Seeds, {""})
    \/ CargoStart(Seeds, InputFaults) /\ Len(vessels) <= 1

NextReplay == NextTools \/ ToolsRerun

SpecReplay == InitReplay /\ [][NextReplay]_vars

(* C21: a second run of a generator with the same seed and the same
   arguments and tables consumes the draws of the first run, in the same
   order, and emits the rows of the first run, in the same order: all along
   the second run its draws and its rows are the beginnings of those of the
   first run, and at its end they are all of them. *)
C21_SameSeedSameRows ==
    earlier # <<>> =>
        LET first == earlier[1]
        IN  /\ Len(draws) <= Len(first.draws)
            /\ draws = SubSeq(first.draws, 1, Len(draws))
            /\ Len(rows) <= Len(first.rows)
            /\ rows = SubSeq(first.rows, 1, Len(rows))
            /\ pc \in {"done", "error"} =>
                  (draws = first.draws /\ rows = first.rows)

(* The second run of generate_log with seed 7 has ended, after the draws of
   the same two steps and with the same two rows as the first run: a
   previous stop and the anchor *)
C21_Witness ==
    /\ tool = "generate_log"
    /\ seed = <<7>>
    /\ earlier # <<>>
    /\ pc = "done"
    /\ Len(rows) = 2
    /\ rows = earlier[1].rows
    /\ Len(draws) = 2
    /\ draws = earlier[1].draws

-----------------------------------------------------------------------------
(* The scaled count ranges on their own: scaled_randint of
   generate_passenger.py and lines 394-397 of generate_cargo.py at two scale
   factors *)

(* The generator locals of a program that is no generator run *)
LocalsIdle ==
    /\ input_fault = ""
    /\ planets = <<>>
    /\ max_prev = 0
    /\ count = 0
    /\ exc = ""
    /\ out_file = "previous"
    /\ names_seen = {}
    /\ rows = <<>>
    /\ pid = 1
    /\ vid = 1
    /\ log_id = 1
    /\ vi = 1
    /\ prev_count = 0
    /\ i = 0
    /\ final_arrival_dt = ZeroDt
    /\ final_departure_dt = ZeroDt
    /\ final_port = 0
    /\ next_arrival = ZeroDt
    /\ next_port = 0
    /\ prev_counts = <<>>
    /\ crew_n = 0
    /\ pax_n = 0
    /\ cid = 1
    /\ n_items = 0
    /\ hazard_draw = -1
    /\ choice_weights = <<>>
    /\ choice_r = 0
    /\ chosen = 0
    /\ seed = None
    /\ draws = <<>>
    /\ earlier = <<>>
    /\ name_attempt = ""

(* Scale factors tried: 0.00, 0.05, ... up to MaxScale twentieths *)
MaxScale == 40

ScaleFactors == {5 * k : k \in 0..MaxScale}

(* Type strings whose ranges are scaled: every canonical type, which is a key
   of TYPE_PROFILE and of VESSEL_CARGO_COUNTS, and a type that is a key of
   neither *)
ScaledTypeStrings ==
    {TYPE_MAP[k][1] : k \in 1..Len(TYPE_MAP)} \cup {"spice clipper"}

(* The per-vessel count ranges the generators scale for a vessel of the
   type: of generate_passengers the crew and the passenger range of its
   profile, of generate_cargo the range of its canonical type *)
CountRanges(t, type_raw) ==
    IF t = "scaled_randint"
    THEN {HeadcountOf(type_raw).crew, HeadcountOf(type_raw).passenger}
    ELSE {VESSEL_CARGO_COUNTS[canonical_type(type_raw)]}

InitScale ==
    /\ tool \in {"scaled_randint", "cargo_counts"}
    /\ vessels \in {<<[id |-> 1, type_raw |-> t, flag |-> 1]>> : t \in ScaledTypeStrings}
    /\ range_in \in CountRanges(tool, vessels[1].type_raw)
    /\ scale \in ScaleFactors
    /\ scale2 \in {s \in ScaleFactors : s > scale}
    /\ scaled = <<>>
    /\ pc = "call"
    /\ LocalsIdle
    /\ SceneIdle
    /\ NameIdle

(* The bounds handed to random.randint at the smaller and at the larger
   scale factor *)
ScaleCall ==
    /\ pc = "call"
    /\ scaled' =
          IF tool = "scaled_randint"
          THEN <<ScaledRange(range_in[1], range_in[2], scale),
                 ScaledRange(range_in[1], range_in[2], scale2)>>
          ELSE <<CargoCounts(canonical_type(vessels[1].type_raw), scale),
                 CargoCounts(canonical_type(vessels[1].type_raw), scale2)>>
    /\ pc' = "returned"
    /\ UNCHANGED <<tool, input_fault, planets, vessels, max_prev, count, scale,
                   seed, earlier, sceneVars, range_in, scale2, draws, out_file,
                   exc, rows, names_seen, log_id, vi, logLocals, prev_counts,
                   vid, crew_n, pax_n, pid, cargoLocals, choiceLocals,
                   name_attempt, nameLocals>>

NextScale == ScaleCall

SpecScale == InitScale /\ [][NextScale]_vars

(* C22: for the crew range and the passenger range of every vessel type in
   generate_passengers, and for the manifest-line range of every vessel type
   in generate_cargo, at two scale factors 0 <= s1 < s2 the lower bound and
   the upper bound handed to randint at s2 are at least those at s1, and so
   is the mean of the uniform draw between them, (lower + upper) / 2. *)
C22_ScaleMonotone ==
    (tool \in {"scaled_randint", "cargo_counts"} /\ pc = "returned") =>
        /\ 0 <= scale /\ scale < scale2
        /\ scaled[1][1] <= scaled[2][1]
        /\ scaled[1][2] <= scaled[2][2]
        /\ scaled[1][1] <= scaled[1][2]
        /\ scaled[2][1] <= scaled[2][2]
        /\ scaled[1][1] + scaled[1][2] <= scaled[2][1] + scaled[2][2]

(* The crew range (2, 6) of a fast courier at the scale factors 0.25 and
   0.75, where both scaled bounds are halves that Python rounds to the even
   neighbour: (0, 2) and (2, 4) *)
C22_Witness ==
    /\ tool = "scaled_randint"
    /\ pc = "returned"
    /\ range_in = <<2, 6>>
    /\ scale = 25
    /\ scale2 = 75
    /\ scaled = << <<0, 2>>, <<2, 4>> >>

-----------------------------------------------------------------------------
(* The name loops on their own, one iteration a step: unique_name of
   generate_passenger.py, make_vessel_name of generate_vessels.py and lines
   138-147 of generate_planets.py, each started on a finite set of names in
   use *)

(* range(50) of unique_name, line 132 *)
NAME_RETRIES == 50

(* range(100) of generate_planets, line 139 *)
PLANET_RETRIES == 100

(* Highest suffix number among the names already in use *)
MaxSuffix == 3

(* Preferred names handed to unique_name: none, a name random draws also
   give, and a captain's name they do not give *)
PreferredNames == {"", "Alex" \o " " \o "Okoye", "Imani" \o " " \o "Vale"}

(* Names that can be in use when unique_name is called *)
PersonNamesInUse ==
    PersonNameDraws \cup {"Imani" \o " " \o "Vale"}
    \cup {"Alex" \o " " \o "Okoye" \o " #" \o ToString(k) : k \in 2..MaxSuffix}

(* Names that can be in use when make_vessel_name is called *)
VesselNamesInUse ==
    VesselNameDraws
    \cup {"SS" \o " " \o "Azure" \o " " \o "Nomad" \o " (" \o ToString(k) \o ")" :
             k \in 2..MaxSuffix}

InitNameLoops ==
    /\ \/ /\ tool = "unique_name"
          /\ names_seen \in SUBSET PersonNamesInUse
          /\ arg_preferred \in PreferredNames
          /\ pid = 1
          /\ pc = "call"
       \/ /\ tool = "make_vessel_name"
          /\ names_seen \in SUBSET VesselNamesInUse
          /\ arg_preferred = ""
          /\ pid = 1
          /\ pc = "call"
       \/ /\ tool = "generate_planets_name"
          /\ names_seen \in SUBSET PlanetNameDraws
          /\ arg_preferred = ""
          /\ pid \in 1..MaxCount
          /\ pc = "retry"
    /\ loop_tries = 0
    /\ loop_name = ""
    /\ loop_base = ""
    /\ loop_idx = 0
    /\ vessels = <<>>
    /\ scale = 0
    /\ input_fault = ""
    /\ planets = <<>>
    /\ max_prev = 0
    /\ count = 0
    /\ exc = ""
    /\ out_file = "previous"
    /\ rows = <<>>
    /\ vid = 1
    /\ log_id = 1
    /\ vi = 1
    /\ prev_count = 0
    /\ i = 0
    /\ final_arrival_dt = ZeroDt
    /\ final_departure_dt = ZeroDt
    /\ final_port = 0
    /\ next_arrival = ZeroDt
    /\ next_port = 0
    /\ prev_counts = <<>>
    /\ crew_n = 0
    /\ pax_n = 0
    /\ cid = 1
    /\ n_items = 0
    /\ hazard_draw = -1
    /\ choice_weights = <<>>
    /\ choice_r = 0
    /\ chosen = 0
    /\ seed = None
    /\ draws = <<>>
    /\ earlier = <<>>
    /\ name_attempt = ""
    /\ ScaleIdle
    /\ SceneIdle

(* What a step of a name loop leaves alone *)
notNames == <<tool, input_fault, planets, vessels, max_prev, count, scale, seed,
              earlier, scaleLocals, sceneVars, draws, out_file, exc, rows,
              log_id, vi, logLocals, prev_counts, vid, crew_n, pax_n, pid,
              cargoLocals, choiceLocals, arg_preferred>>

(* unique_name lines 128-130: a preferred name that is not in use is taken *)
UniqueNameCall ==
    /\ tool = "unique_name"
    /\ pc = "call"
    /\ IF arg_preferred # "" /\ arg_preferred \notin names_seen
       THEN /\ names_seen' = names_seen \cup {arg_preferred}
            /\ loop_name' = arg_preferred
            /\ pc' = "returned"
       ELSE /\ pc' = "retry"
            /\ UNCHANGED <<names_seen, loop_name>>
    /\ UNCHANGED <<notNames, name_attempt, loop_tries, loop_base, loop_idx>>

(* unique_name lines 132-136: one iteration of `for _ in range(50)` *)
UniqueNameRetry ==
    /\ tool = "unique_name"
    /\ pc = "retry"
    /\ loop_tries < NAME_RETRIES
    /\ \E n \in PersonNameDraws :
          /\ loop_name' = n
          /\ name_attempt' = n
          /\ IF n \notin names_seen
             THEN /\ names_seen' = names_seen \cup {n}
                  /\ pc' = "returned"
                  /\ loop_tries' = loop_tries
             ELSE /\ loop_tries' = loop_tries + 1
                  /\ UNCHANGED <<names_seen, pc>>
    /\ UNCHANGED <<notNames, loop_base, loop_idx>>

(* Mutation of UniqueNameBase: base is the name of the last attempt *)
UniqueNameBaseLastAttempt ==
    /\ tool = "unique_name"
    /\ pc = "retry"
    /\ loop_tries = NAME_RETRIES
    /\ loop_idx' = 2
    /\ loop_base' = name_attempt
    /\ loop_name' = loop_base'
    /\ pc' = "suffix"
    /\ UNCHANGED <<notNames, names_seen, name_attempt, loop_tries>>

(* unique_name lines 138-140: the for loop is exhausted; idx = 2, base is the
   preferred name or one more draw, name = base *)
UniqueNameBase ==
    /\ tool = "unique_name"
    /\ pc = "retry"
    /\ loop_tries = NAME_RETRIES
    /\ loop_idx' = 2
    /\ loop_base' \in (IF arg_preferred # "" THEN {arg_preferred}
                       ELSE PersonNameDraws)
    /\ loop_name' = loop_base'
    /\ pc' = "suffix"
    /\ UNCHANGED <<notNames, names_seen, name_attempt, loop_tries>>

(* Mutation of UniqueNameSuffix: idx is not incremented *)
UniqueNameSuffixSameIdx ==
    /\ tool = "unique_name"
    /\ pc = "suffix"
    /\ IF loop_name \in names_seen
       THEN /\ loop_name' = loop_base \o " #" \o ToString(loop_idx)
            /\ loop_idx' = loop_idx
            /\ UNCHANGED <<names_seen, pc>>
       ELSE /\ names_seen' = names_seen \cup {loop_name}
            /\ pc' = "returned"
            /\ UNCHANGED <<loop_name, loop_idx>>
    /\ UNCHANGED <<notNames, name_attempt, loop_tries, loop_base>>

(* unique_name lines 141-145: one test of `while name in existing`, then
   either its body or the statements after the loop *)
UniqueNameSuffix ==
    /\ tool = "unique_name"
    /\ pc = "suffix"
    /\ IF loop_name \in names_seen
       THEN /\ loop_name' = loop_base \o " #" \o ToString(loop_idx)
            /\ loop_idx' = loop_idx + 1
            /\ UNCHANGED <<names_seen, pc>>
       ELSE /\ names_seen' = names_seen \cup {loop_name}
            /\ pc' = "returned"
            /\ UNCHANGED <<loop_name, loop_idx>>
    /\ UNCHANGED <<notNames, name_attempt, loop_tries, loop_base>>

(* make_vessel_name lines 122-136 (and 141-142 when the name is free): the
   name is built from the draws; in use, it becomes base and idx = 2 *)
VesselNameCall ==
    /\ tool = "make_vessel_name"
    /\ pc = "call"
    /\ \E n \in VesselNameDraws :
          /\ loop_name' = n
          /\ IF n \in names_seen
             THEN /\ loop_base' = n
                  /\ loop_idx' = 2
                  /\ pc' = "suffix"
                  /\ names_seen' = names_seen
             ELSE /\ names_seen' = names_seen \cup {n}
                  /\ pc' = "returned"
                  /\ UNCHANGED <<loop_base, loop_idx>>
    /\ UNCHANGED <<notNames, name_attempt, loop_tries>>

(* make_vessel_name lines 137-142: one test of `while name in existing`,
   then either its body or the statements after the loop *)
VesselNameSuffix ==
    /\ tool = "make_vessel_name"
    /\ pc = "suffix"
    /\ IF loop_name \in names_seen
       THEN /\ loop_name' = loop_base \o " (" \o ToString(loop_idx) \o ")"
            /\ loop_idx' = loop_idx + 1
            /\ UNCHANGED <<names_seen, pc>>
       ELSE /\ names_seen' = names_seen \cup {loop_name}
            /\ pc' = "returned"
            /\ UNCHANGED <<loop_name, loop_idx>>
    /\ UNCHANGED <<notNames, name_attempt, loop_tries, loop_base>>

(* generate_planets lines 139-143: one iteration of `for _ in range(100)` *)
PlanetNameRetry ==
    /\ tool = "generate_planets_name"
    /\ pc = "retry"
    /\ loop_tries < PLANET_RETRIES
    /\ \E n \in PlanetNameDraws :
          /\ loop_name' = n
          /\ IF n \notin names_seen
             THEN /\ names_seen' = names_seen \cup {n}
                  /\ pc' = "returned"
                  /\ loop_tries' = loop_tries
             ELSE /\ loop_tries' = loop_tries + 1
                  /\ UNCHANGED <<names_seen, pc>>
    /\ UNCHANGED <<notNames, name_attempt, loop_base, loop_idx>>

(* generate_planets lines 144-147: the else branch of the for loop *)
PlanetNameFallback ==
    /\ tool = "generate_planets_name"
    /\ pc = "retry"
    /\ loop_tries = PLANET_RETRIES
    /\ \E designation \in CatalogueDraws :
          loop_name' = FallbackName(designation, pid)
    /\ pc' = "returned"
    /\ UNCHANGED <<notNames, names_seen, name_attempt, loop_tries, loop_base,
                   loop_idx>>

(* A name loop on its own, or a run of one of the generators over short
   tables *)
InitNames ==
    \/ InitNameLoops
    \/ InitPlanets
    \/ InitVessels /\ Len(planets) <= 1
    \/ InitPassengers /\ Len(planets) <= 1 /\ Len(vessels) <= 1
    \/ InitCargo /\ Len(vessels) <= 1
    \/ InitLog /\ Len(planets) = 2 /\ Len(vessels) <= 1 /\ max_prev = 1

NextNames ==
    \/ UniqueNameCall
    \/ UniqueNameRetry
    \/ UniqueNameBase
    \/ UniqueNameSuffix
    \/ VesselNameCall
    \/ VesselNameSuffix
    \/ PlanetNameRetry
    \/ PlanetNameFallback
    \/ NextTools

(* The interpreter runs the next statement of a loop that was started *)
SpecNames == InitNames /\ [][NextNames]_vars /\ WF_vars(NextNames)

(* C23: started on any finite set of names in use, unique_name,
   make_vessel_name and the name loop of generate_planets come to an end and
   hand back a name, also when the retries are used up, and none of them
   raises an error; every run of a generator comes to its end. *)
C23_NameLoopsTerminate ==
    <>(\/ pc = "returned" /\ loop_name # "" /\ exc = ""
       \/ pc \in {"done", "error"})

(* unique_name has returned after 50 colliding attempts and two rounds of
   its suffix loop: "Alex Okoye" and "Alex Okoye #2" were in use *)
C23_Witness ==
    /\ tool = "unique_name"
    /\ pc = "returned"
    /\ loop_tries = NAME_RETRIES
    /\ loop_idx = 4
    /\ loop_name = "Alex" \o " " \o "Okoye" \o " #3"
    /\ loop_name \in names_seen

-----------------------------------------------------------------------------
(* The five generators on an output device that may fail *)

InitWrites ==
    \/ LogStart({None}, OutputFaults) /\ Len(planets) = 2 /\ Len(vessels) <= 1
          /\ max_prev = 1
    \/ VesselsStart({None}, OutputFaults) /\ Len(planets) <= 1 /\ count <= 1
    \/ PassengersStart({None}, OutputFaults) /\ Len(planets) <= 1
          /\ Len(vessels) <= 1
    \/ PlanetsStart({None}, OutputFaults)
    \/ CargoStart({None}, OutputFaults) /\ Len(vessels) <= 1

SpecWrites == InitWrites /\ [][NextTools]_vars

(* C24: after a run of a generator has ended, with or without an error, the
   file at its output path is the complete new table or what it was before
   the run; it is never a part of the new table. *)
C24_NoPartialOutput ==
    pc \in {"done", "error"} => out_file \in {"previous", "written"}

-----------------------------------------------------------------------------
(* The name unique_name falls back to *)

(* unique_name has returned after its 50 attempts all drew names in use *)
UniqueNameExhausted ==
    /\ tool = "unique_name"
    /\ pc = "returned"
    /\ loop_tries = NAME_RETRIES

(* The k-th name the suffix loop tests: base, base #2, base #3, ... *)
SuffixCandidate(base, k) ==
    IF k = 1 THEN base ELSE base \o " #" \o ToString(k)

(* C25: when the 50 attempts of unique_name are used up, the name it
   returns is the name drawn by the last attempt with " #k" appended, whether
   or not a preferred name was given. *)
C25_FallbackFromLastAttempt ==
    UniqueNameExhausted =>
        \E k \in 2..(Cardinality(names_seen) + 1) :
            loop_name = name_attempt \o " #" \o ToString(k)

(* C25, amended: when the 50 attempts of unique_name are used up, base is
   the preferred name when one was given and otherwise one more random draw,
   and the name returned is the first of base, base #2, base #3, ... that was
   not in use; the name drawn by the last attempt plays no part. *)
C25_FallbackFromBase ==
    UniqueNameExhausted =>
        LET before == names_seen \ {loop_name}
        IN  /\ arg_preferred # "" => loop_base = arg_preferred
            /\ arg_preferred = "" => loop_base \in PersonNameDraws
            /\ \E k \in 1..(Cardinality(names_seen) + 1) :
                  /\ loop_name = SuffixCandidate(loop_base, k)
                  /\ \A j \in 1..(k - 1) : SuffixCandidate(loop_base, j) \in before

(* unique_name was given the captain's name "Imani Vale", which was in use,
   drew "Alex Okoye", in use as well, in its last attempt, and returned
   "Imani Vale #2" *)
C25_Witness ==
    /\ UniqueNameExhausted
    /\ arg_preferred = "Imani" \o " " \o "Vale"
    /\ name_attempt = "Alex" \o " " \o "Okoye"
    /\ loop_name = "Imani" \o " " \o "Vale" \o " #2"

-----------------------------------------------------------------------------
(* The backward walk of generate_logs, lines 208-253 *)

(* Indices into rows of the previous stops of the vessel at position k: its
   rows but the anchor, which is appended last *)
PrevIdx(k) ==
    IF k \in DoneVessels THEN RowIdx(k) \ {LastIdx(k)} ELSE RowIdx(k)

(* The stop that chronologically follows the previous stop at index j of the
   vessel at position k: the previous stop appended right before it, or for
   the first one the anchor, which is the last row of a finished vessel and
   is held in final_port and final_arrival_dt while the vessel is walked *)
FollowingPort(k, j) ==
    IF j - 1 \in PrevIdx(k) THEN rows[j - 1].port
    ELSE IF k \in DoneVessels THEN rows[LastIdx(k)].port
    ELSE final_port

FollowingArrival(k, j) ==
    IF j - 1 \in PrevIdx(k) THEN rows[j - 1].arrival
    ELSE IF k \in DoneVessels THEN rows[LastIdx(k)].arrival
    ELSE Timestamp(final_arrival_dt)

(* C26: with at least two bodies (of distinct ids) in the planet table,
   the port of every previous stop differs from the port of the stop that
   chronologically follows it, and no step fails for want of a candidate. *)
C26_PortDiffersFromFollowing ==
    Len(planets) >= 2 =>
        /\ \A k \in 1..Len(vessels) : \A j \in PrevIdx(k) :
              rows[j].port # FollowingPort(k, j)
        /\ exc # IndexError

(* A finished vessel with two previous stops that was at the anchor's port
   two stops before the anchor: the walk excludes only the stop that
   follows *)
C26_Witness ==
    \E k \in DoneVessels :
        /\ prev_counts[k] = 2
        /\ LET last == LastIdx(k)
           IN  /\ rows[last - 1].port = rows[last].port
               /\ rows[last - 2].port # rows[last].port
               /\ rows[last - 1].vessel = rows[last].vessel
               /\ rows[last - 2].vessel = rows[last].vessel

(* C28: the previous stops of a vessel are appended in strictly decreasing
   order of arrival, the stop nearest the anchor first; the anchor is
   appended after all of them, and its arrival is strictly later than the
   arrival of each of them. *)
C28_PrevStopsNewestFirst ==
    \A k \in 1..Len(vessels) :
        /\ \A a, b \in PrevIdx(k) :
              a < b => rows[a].arrival > rows[b].arrival
        /\ \A j \in PrevIdx(k) : rows[j].arrival < FollowingArrival(k, j)
        /\ k \in DoneVessels =>
              /\ Cardinality(PrevIdx(k)) = prev_counts[k]
              /\ \A j \in PrevIdx(k) :
                    /\ j < LastIdx(k)
                    /\ rows[j].arrival < rows[LastIdx(k)].arrival

(* A finished vessel with two previous stops: the one appended first
   arrives after the one appended second, and the anchor, appended last,
   arrives after both *)
C28_Witness ==
    \E k \in DoneVessels :
        /\ prev_counts[k] = 2
        /\ LET last == LastIdx(k)
           IN  /\ rows[last - 2].vessel = rows[last].vessel
               /\ rows[last - 2].arrival > rows[last - 1].arrival
               /\ rows[last].arrival > rows[last - 2].arrival
               /\ rows[last - 2].id < rows[last - 1].id
               /\ rows[last - 1].id < rows[last].id

-----------------------------------------------------------------------------
(* generate_logs run with a seed over one vessel, which records the draws of
   every step *)

InitLogSeeded == LogStart(Seeds, {""}) /\ Len(vessels) <= 1

SpecLogSeeded == InitLogSeeded /\ [][NextLog]_vars

(* The travel time drawn for the previous stop at index j of rows: every
   vessel draws once at the head of the loop body and once per previous
   stop, and appends one row per previous stop and one for the anchor, so
   the stop at index j was appended by the step of draw j + 1 *)
TravelDrawn(j) == draws[j + 1][1][1]

(* C29: port calls of a vessel do not overlap: every previous stop departs
   no later than the stop that chronologically follows it arrives; the gap
   between the two is the travel time drawn for that step, in the whole
   seconds of the table (exactly when the travel time is a whole number of
   seconds, else rounded down or up), and it is at least the minimum travel
   hours of the vessel's profile. *)
C29_NoOverlapTravelGap ==
    \A k \in 1..Len(vessels) : \A j \in PrevIdx(k) :
        LET gap == FollowingArrival(k, j) - rows[j].departure
            travel == TravelDrawn(j)
        IN  /\ rows[j].departure <= FollowingArrival(k, j)
            /\ travel.s <= gap
            /\ gap <= travel.s + (IF travel.us = 0 THEN 0 ELSE 1)
            /\ gap >= ProfileOf(vessels[k].type_raw).travel_hours[1] * 3600

(* A finished vessel with two previous stops, one that left the minimum
   travel time before the following arrival and one whose travel time was
   no whole number of seconds *)
C29_Witness ==
    \E k \in DoneVessels :
        /\ prev_counts[k] = 2
        /\ \E j \in PrevIdx(k) :
              /\ TravelDrawn(j).us = 0
              /\ FollowingArrival(k, j) - rows[j].departure =
                    ProfileOf(vessels[k].type_raw).travel_hours[1] * 3600
        /\ \E j \in PrevIdx(k) :
              /\ TravelDrawn(j).us > 0
              /\ FollowingArrival(k, j) - rows[j].departure >= TravelDrawn(j).s

-----------------------------------------------------------------------------
(* The game: main.py and the scenes MainMenu, LevelSelect and Level *)

(* Levels in table Level of level_meta.sqlite *)
MaxLevels == 2

(* Highest id in table Vessel of the example database *)
MaxRows == 2

(* Column solution_sql of the levels: two reference queries in turn *)
SOLUTION_SQL ==
    [k \in 1..MaxLevels |->
        IF k % 2 = 1 THEN "SELECT id FROM Vessel ORDER BY id"
        ELSE "SELECT id FROM Vessel WHERE id = 1"]

(* Texts the player leaves in the SQL box: nothing, a misspelt statement, the
   reference queries (one with blanks and a line break around it), the same
   rows in another order, a statement that deletes the rows and one that
   drops the table *)
PlayerTexts ==
    {"", "SELEC",
     "SELECT id FROM Vessel ORDER BY id",
     " SELECT id FROM Vessel ORDER BY id\n",
     "SELECT id FROM Vessel ORDER BY id DESC",
     "SELECT id FROM Vessel WHERE id = 1",
     "DELETE FROM Vessel",
     "DROP TABLE Vessel"}

(* str.strip(): leading and trailing blanks and line breaks are removed *)
RECURSIVE Strip(_)
Strip(s) ==
    IF Len(s) = 0 THEN s
    ELSE IF SubSeq(s, 1, 1) \in {" ", "\n"} THEN Strip(SubSeq(s, 2, Len(s)))
    ELSE IF SubSeq(s, Len(s), Len(s)) \in {" ", "\n"}
         THEN Strip(SubSeq(s, 1, Len(s) - 1))
         ELSE s

(* The ids of a set in increasing order *)
RECURSIVE Ascending(_)
Ascending(ids) ==
    IF ids = {} THEN <<>>
    ELSE LET least == CHOOSE x \in ids : \A y \in ids : x <= y
         IN  <<least>> \o Ascending(ids \ {least})

RECURSIVE Descending(_)
Descending(ids) ==
    IF ids = {} THEN <<>>
    ELSE LET most == CHOOSE x \in ids : \A y \in ids : x >= y
         IN  <<most>> \o Descending(ids \ {most})

(* cur.execute(sql) followed by cur.fetchall() on a connection whose
   database is db: the error message ("" when none is raised), the rows
   fetched, the database as the connection sees it afterwards, and whether
   the statement took effect outside a transaction, as DROP TABLE does while
   DELETE opens a transaction that conn.close() rolls back *)
Execute(sql, db) ==
    IF sql = ""
    THEN [err |-> "", rows |-> <<>>, db |-> db, committed |-> FALSE]
    ELSE IF sql = "SELEC"
    THEN [err |-> "near \"SELEC\": syntax error", rows |-> <<>>, db |-> db,
          committed |-> FALSE]
    ELSE IF db = <<>>
    THEN [err |-> "no such table: Vessel", rows |-> <<>>, db |-> db,
          committed |-> FALSE]
    ELSE IF sql = "SELECT id FROM Vessel ORDER BY id"
    THEN [err |-> "", rows |-> Ascending(db[1]), db |-> db, committed |-> FALSE]
    ELSE IF sql = "SELECT id FROM Vessel ORDER BY id DESC"
    THEN [err |-> "", rows |-> Descending(db[1]), db |-> db, committed |-> FALSE]
    ELSE IF sql = "SELECT id FROM Vessel WHERE id = 1"
    THEN [err |-> "", rows |-> Ascending(db[1] \cap {1}), db |-> db,
          committed |-> FALSE]
    ELSE IF sql = "DELETE FROM Vessel"
    THEN [err |-> "", rows |-> <<>>, db |-> <<{}>>, committed |-> FALSE]
    ELSE [err |-> "", rows |-> <<>>, db |-> <<>>, committed |-> TRUE]

(* repr() of the rows fetched, a list of 1-tuples: "[(1,), (2,)]" *)
RECURSIVE RowsJoined(_)
RowsJoined(r) ==
    IF r = <<>> THEN ""
    ELSE "(" \o ToString(r[1]) \o ",)"
         \o (IF Len(r) > 1 THEN ", " ELSE "") \o RowsJoined(Tail(r))

RowsText(r) == "[" \o RowsJoined(r) \o "]"

(* Mutation of RowsEqual: the rows are compared without their order *)
RowsEqualAsSets(player, expected) == SeqToSet(player) = SeqToSet(expected)

(* Line 125: player_result == expected_result, on lists of rows *)
RowsEqual(player, expected) == player = expected

(* set_solved: UPDATE Level SET solved = 1 WHERE id = level_id *)
set_solved(marks, id) == [marks EXCEPT ![id] = 1]

InitScenes ==
    /\ tool = "main"
    /\ pc = "events"
    /\ vessels = <<>>
    /\ scale = 0
    /\ LocalsIdle
    /\ ScaleIdle
    /\ NameIdle
    /\ scene = "MainMenu"
    /\ level_id = 0
    /\ sql_text = ""
    /\ result_text = ""
    /\ solved \in [1..MaxLevels -> {0, 1}]
    /\ example_db \in {<<ids>> : ids \in SUBSET (1..MaxRows)}
    /\ player_result = <<>>
    /\ expected_result = <<>>

(* What the game leaves alone *)
notScenes == <<tool, input_fault, planets, vessels, max_prev, count, scale,
               seed, earlier, scaleLocals, nameLocals, pc, exc, rows, draws,
               out_file, names_seen, name_attempt, log_id, vi, logLocals,
               prev_counts, vid, crew_n, pax_n, pid, cargoLocals,
               choiceLocals>>

(* MainMenu.run: a click on the button returns LevelSelect(screen) *)
MenuStart ==
    /\ scene = "MainMenu"
    /\ scene' = "LevelSelect"
    /\ UNCHANGED <<notScenes, level_id, sql_text, result_text, solved,
                   example_db, player_result, expected_result>>

(* LevelSelect.run: a click on the row of a level returns
   Level(screen, level[0]), whose SQL box and result text are empty *)
SelectLevel ==
    /\ scene = "LevelSelect"
    /\ \E id \in 1..MaxLevels : level_id' = id
    /\ scene' = "Level"
    /\ sql_text' = ""
    /\ result_text' = ""
    /\ player_result' = <<>>
    /\ expected_result' = <<>>
    /\ UNCHANGED <<notScenes, solved, example_db>>

(* Level.run, sql_box.handle_event: the key events that turn the text of the
   SQL box into another text *)
LevelEdit ==
    /\ scene = "Level"
    /\ sql_text' \in PlayerTexts
    /\ UNCHANGED <<notScenes, scene, level_id, result_text, solved, example_db,
                   player_result, expected_result>>

(* Level.run: a click on BACK returns LevelSelect(screen) *)
LevelBack ==
    /\ scene = "Level"
    /\ scene' = "LevelSelect"
    /\ UNCHANGED <<notScenes, level_id, sql_text, result_text, solved,
                   example_db, player_result, expected_result>>

(* Level.run: a click on TEST calls check_sql, lines 102-134, which calls
   set_solved, lines 88-100, whose UPDATE may fail and is then only
   reported on the console.  The result texts are without their emoji. *)
LevelTest ==
    /\ scene = "Level"
    /\ LET player == Execute(Strip(sql_text), example_db)
           expected == Execute(SOLUTION_SQL[level_id], player.db)
       IN  /\ example_db' = IF player.err = "" /\ player.committed
                            THEN player.db ELSE example_db
           /\ IF player.err # ""
              THEN /\ result_text' = "Error: " \o player.err
                   /\ player_result' = <<>>
                   /\ expected_result' = <<>>
                   /\ solved' = solved
              ELSE IF expected.err # ""
              THEN /\ result_text' = "Error: " \o expected.err
                   /\ player_result' = <<player.rows>>
                   /\ expected_result' = <<>>
                   /\ solved' = solved
              ELSE /\ player_result' = <<player.rows>>
                   /\ expected_result' = <<expected.rows>>
                   /\ IF RowsEqual(player.rows, expected.rows)
                      THEN /\ result_text' = "Correct!"
                           /\ solved' \in {set_solved(solved, level_id), solved}
                      ELSE /\ result_text' =
                                 "Incorrect.\nYour result: " \o RowsText(player.rows)
                           /\ solved' = solved
    /\ UNCHANGED <<notScenes, scene, level_id, sql_text>>

(* run() returns None on pygame.QUIT and main leaves the loop *)
SceneQuit ==
    /\ scene \in {"MainMenu", "LevelSelect", "Level"}
    /\ scene' = "quit"
    /\ UNCHANGED <<notScenes, level_id, sql_text, result_text, solved,
                   example_db, player_result, expected_result>>

NextScenes ==
    \/ MenuStart
    \/ SelectLevel
    \/ LevelEdit
    \/ LevelBack
    \/ LevelTest
    \/ SceneQuit

SpecScenes == InitScenes /\ [][NextScenes]_vars

(* A step of the Level scene that leaves the SQL box as it is and is no
   stuttering step is a click on TEST *)
TestClicked ==
    /\ scene = "Level"
    /\ scene' = "Level"
    /\ sql_text' = sql_text

(* C27: a click on TEST marks the level solved only when the player's
   statement and then the level's reference query both ran on the example
   database and returned the same rows in the same order, and it marks no
   other level; when the rows differ the solved markers stay as they are and
   the result text shows "Incorrect" with the player's rows; when the
   player's statement raises, the markers stay as they are and the result
   text shows the error; no other step of the game changes a marker. *)
C27_SolvedOnlyOnEqualRows ==
    [][IF TestClicked
       THEN LET player == Execute(Strip(sql_text), example_db)
                reference == Execute(SOLUTION_SQL[level_id], player.db)
                ran == player.err = "" /\ reference.err = ""
            IN  /\ solved' # solved =>
                      /\ ran
                      /\ player.rows = reference.rows
                      /\ solved' = [solved EXCEPT ![level_id] = 1]
                /\ (ran /\ player.rows # reference.rows) =>
                      /\ solved' = solved
                      /\ result_text' =
                            "Incorrect.\nYour result: " \o RowsText(player.rows)
                /\ player.err # "" =>
                      /\ solved' = solved
                      /\ result_text' = "Error: " \o player.err
       ELSE solved' = solved]_vars

(* Level 1 was tested with its rows in descending order: the result text
   shows the mismatch and the level is not marked solved *)
C27_Witness ==
    /\ scene = "Level"
    /\ level_id = 1
    /\ sql_text = "SELECT id FROM Vessel ORDER BY id DESC"
    /\ player_result = << <<2, 1>> >>
    /\ expected_result = << <<1, 2>> >>
    /\ result_text = "Incorrect.\nYour result: [(2,), (1,)]"
    /\ solved[1] = 0

-----------------------------------------------------------------------------
(* The category of a manifest line: pick_category_for_vessel and lines
   401-406 of generate_cargo on their own, for every canonical type and
   every place the draw can fall in the weight table, next to runs of
   generate_cargo over one vessel *)

(* Type strings tried: every canonical type and a type that is none *)
CategoryTypeStrings == ScaledTypeStrings

InitCategories ==
    \/ /\ tool = "pick_category_for_vessel"
       /\ vessels \in {<<[id |-> 1, type_raw |-> t, flag |-> 1]>> :
                          t \in CategoryTypeStrings}
       /\ choice_r \in RDraws(CategoryWeights(canonical_type(vessels[1].type_raw)))
       /\ choice_weights = <<>>
       /\ chosen = 0
       /\ scale = 0
       /\ pc = "call"
       /\ input_fault = ""
       /\ planets = <<>>
       /\ max_prev = 0
       /\ count = 0
       /\ exc = ""
       /\ out_file = "previous"
       /\ names_seen = {}
       /\ rows = <<>>
       /\ pid = 1
       /\ vid = 1
       /\ log_id = 1
       /\ vi = 1
       /\ prev_count = 0
       /\ i = 0
       /\ final_arrival_dt = ZeroDt
       /\ final_departure_dt = ZeroDt
       /\ final_port = 0
       /\ next_arrival = ZeroDt
       /\ next_port = 0
       /\ prev_counts = <<>>
       /\ crew_n = 0
       /\ pax_n = 0
       /\ cid = 1
       /\ n_items = 0
       /\ hazard_draw = -1
       /\ seed = None
       /\ draws = <<>>
       /\ earlier = <<>>
       /\ name_attempt = ""
       /\ ScaleIdle
       /\ SceneIdle
       /\ NameIdle
    \/ InitCargo /\ Len(vessels) <= 1

(* Lines 401-406: the category picked for the vessel's canonical type, and
   the category of the line, which is 'Spare Parts' when the one picked is no
   key of CATEGORY_DEFS *)
CategoryCall ==
    /\ tool = "pick_category_for_vessel"
    /\ pc = "call"
    /\ LET picked == pick_category_for_vessel(canonical_type(vessels[1].type_raw),
                                              choice_r)
       IN  rows' = <<[picked |-> picked,
                      category |-> IF picked \in DOMAIN CATEGORY_DEFS THEN picked
                                   ELSE "Spare Parts"]>>
    /\ pc' = "returned"
    /\ UNCHANGED <<inputs, draws, out_file, exc, names_seen, name_attempt,
                   log_id, vi, logLocals, prev_counts, vid, crew_n, pax_n, pid,
                   cargoLocals, choiceLocals>>

NextCategories ==
    \/ CategoryCall
    \/ tool = "generate_cargo" /\ NextCargo

SpecCategories == InitCategories /\ [][NextCategories]_vars

(* The categories listed for a canonical type in the fixed tables *)
ListedCategories(canon) ==
    LET table == IF canon \in DOMAIN CATEGORY_WEIGHTS_BY_TYPE
                 THEN CATEGORY_WEIGHTS_BY_TYPE[canon]
                 ELSE DEFAULT_CATEGORY_WEIGHTS
    IN  {table[k][1] : k \in 1..Len(table)}

(* C30: the category of every manifest line is a key of CATEGORY_DEFS and is
   listed in the weight table of the vessel's canonical type, or in
   DEFAULT_CATEGORY_WEIGHTS when that type has no table; a tanker's lines
   are Fuel, Chemicals or Spare Parts; the category picked is always a key
   of CATEGORY_DEFS, so 'Spare Parts' is never substituted for it. *)
C30_CategoryListedAndDefined ==
    /\ tool = "generate_cargo" =>
          \A j \in 1..Len(rows) :
              LET canon == canonical_type(vessels[rows[j].vessel].type_raw)
              IN  /\ rows[j].category \in DOMAIN CATEGORY_DEFS
                  /\ rows[j].category \in ListedCategories(canon)
                  /\ canon = "tanker" =>
                        rows[j].category \in {"Fuel", "Chemicals", "Spare Parts"}
    /\ (tool = "pick_category_for_vessel" /\ pc = "returned") =>
          LET canon == canonical_type(vessels[1].type_raw)
          IN  /\ rows[1].picked \in DOMAIN CATEGORY_DEFS
              /\ rows[1].category = rows[1].picked
              /\ rows[1].category \in ListedCategories(canon)
              /\ canon = "tanker" =>
                    rows[1].category \in {"Fuel", "Chemicals", "Spare Parts"}

(* For a tanker the draw fell right above the weight of Fuel and Chemicals
   was picked *)
C30_Witness ==
    /\ tool = "pick_category_for_vessel"
    /\ pc = "returned"
    /\ canonical_type(vessels[1].type_raw) = "tanker"
    /\ choice_r = 71
    /\ rows = <<[picked |-> "Chemicals", category |-> "Chemicals"]>>

====
